---- MODULE Spec2Model ----
(***************************************************************************)
(* Model of the SIFTTT protection controllers.                             *)
(*                                                                         *)
(* Part 1: the multi-account ProtectionService of                          *)
(*   packages/plugin-solana-sifttt/src/services/protection_service.ts      *)
(* Every invocation of checkHealthFactors or forceCheck is a slot of       *)
(* `cycles`; a slot advances from one await to the next in one step, as    *)
(* the JavaScript event loop runs a continuation to completion.  The       *)
(* chain, the cache store and the timers are the environment: what a fetch *)
(* returns, whether a submission succeeds and when a timer fires are       *)
(* chosen with \E.                                                         *)
(*                                                                         *)
(* Part 2: the single-account ProtectionService variants                   *)
(*   (unnamed/part_001 and unnamed/part_002): checkAndTriggerProtection    *)
(*   and the checkAndExecuteDCA and checkAndExecutePriceTrade of part_001. *)
(*                                                                         *)
(* Part 3: the account codec: the reading of the account data and the      *)
(*   building of the instruction data.                                     *)
(*                                                                         *)
(* Specifications:                                                         *)
(*   Spec        one process of the multi-account service: start, timer,   *)
(*               forceCheck, add/remove, stop; the chain answers with one  *)
(*               of a few sample states                                    *)
(*   SpecForce   forced checks against the timer's cycles, with the        *)
(*               fairness of the event loop: the sleep of a forceCheck     *)
(*               ends and pending calls settle                             *)
(*   SpecRestart the process is restarted, within the timer period,        *)
(*               against the cache it left                                 *)
(*   SpecRegistry add/remove calls and restarts on any cache found at      *)
(*               start                                                     *)
(*   SpecStop    stop() against the initial check in flight                *)
(*   SpecEval    check cycles that follow one another, over every          *)
(*               decodable account state, with the clock advancing         *)
(*   SpecSingle  the single-account services on an account without DCA     *)
(*               and price trade                                           *)
(*   SpecDca     the DCA check of the single-account service, with the     *)
(*               clock advancing and the process restarting                *)
(*   SpecDcaEval DCA checks of one process that follow one another         *)
(*   SpecDcaDay  the same on an account that buys once a day, at the       *)
(*               time scale of a day                                       *)
(*   SpecPrice   price-trade checks of one process that follow one another *)
(*   SpecDecode  the decoders of part 3 against every account data         *)
(*   SpecEncode  the instruction encoders of part 3 against every call     *)
(*   SpecSetup   the handlers of SET_AUTOMATION, SET_DCA and                *)
(*               SET_PRICE_TRADING against every extracted content          *)
(*   SpecManual  the handler of AUTO_REPAY against every account state     *)
(***************************************************************************)
EXTENDS Integers, Sequences, FiniteSets, TLC

\* ---------------------------------------------------------------- bounds
MaxCycles == 2      \* checkHealthFactors / forceCheck invocations per process
MaxMutations == 1   \* effective add/remove calls per process
MaxRestarts == 2    \* process restarts per behaviour
MaxClock == 1       \* Date.now() ranges over 0..MaxClock
MaxHealth == 2      \* health factors read from the chain range over 0..MaxHealth
MaxCached == 2      \* snapshots in a cache found at start
MaxInterval == 3    \* the largest DCA interval read from the chain, in seconds
MaxAmount == 1      \* DCA token amounts range over 1..MaxAmount
EpochSeconds == 2   \* Date.now() at the first start, in seconds
MsPerSecond == 1000
DayInterval == 86400  \* the DCA interval of the daily-purchase scenario, seconds
GapSeconds == 90000   \* Date.now() at the first check of that scenario, seconds
TargetPrice == 150    \* the target price set on a price-trade account
PriceSpread == 10     \* mock prices lie within PriceSpread of the target price
WideValue == 258      \* a field value that takes two bytes
ShortLengths == {0, 16, 32, 33, 40, 88, 89, 96, 136, 137}

\* ---------------------------------------------------------------- values
Null == "null"
Absent == -1                       \* an optional number that is not set
NoAccount == "none"                \* SIFTTT_ACCOUNT not configured
Addr == {"A", "B", "bad"}          \* strings handed to addAccountToMonitor
ConfigAccounts == {NoAccount, "A", "bad"}

\* getAccountState throws: no account under the address, or undecodable data
FetchFailures == {[error |-> "NotFound"], [error |-> "DecodeError"]}
NoData == [accountPubkey |-> Null]
NoCache == [present |-> FALSE, value |-> <<>>]
Cached(v) == [present |-> TRUE, value |-> v]

\* new PublicKey(pubkeyStr) throws on a string that is not a public key
ValidPubkey(a) == a # "bad"

\* what getAccountState decodes
AccountState ==
  [healthFactor : 0..MaxHealth, triggerHealthFactor : 0..MaxHealth,
   targetHealthFactor : {2}, automationEnabled : BOOLEAN]

FetchResult == AccountState \cup FetchFailures

\* the chain answers drawn in the life-cycle specification: a position at
\* its trigger, a position above it, and no account
AtRisk == [healthFactor |-> 1, triggerHealthFactor |-> 1,
           targetHealthFactor |-> 2, automationEnabled |-> TRUE]
Healthy == [healthFactor |-> 2, triggerHealthFactor |-> 1,
            targetHealthFactor |-> 2, automationEnabled |-> TRUE]
SampleResult == {AtRisk, Healthy, [error |-> "NotFound"]}
RepaidResult == {Healthy, [error |-> "NotFound"]}

Slots == 1..MaxCycles
RSlots == 1..MaxMutations

VARIABLES
  cfgKey,          \* SOLANA_PRIVATE_KEY / WALLET_PRIVATE_KEY is set and decodes
  cfgAccount,      \* SIFTTT_ACCOUNT setting
  keypair,         \* this.keypair is initialised
  accountPubkeys,  \* this.accountPubkeys
  updateInterval,  \* this.updateInterval is armed
  isMonitoring,    \* this.isMonitoring
  cache,           \* value under PROTECTION_DATA_CACHE_KEY, NoCache when unset
  clock,           \* Date.now()
  cycles,          \* invocations of checkHealthFactors / forceCheck
  rewrites,        \* invocations of updateCache() without data
  restarts,        \* number of process restarts so far
  lastCall,        \* the last addAccountToMonitor / removeAccountFromMonitor
                   \* call of this process and the value it returned
  sa,              \* the single-account service (part 2)
  wire             \* the last call of the account codec (part 3): what was
                   \* decoded or encoded and the result

vars == <<cfgKey, cfgAccount, keypair, accountPubkeys, updateInterval,
          isMonitoring, cache, clock, cycles, rewrites, restarts, lastCall, sa, wire>>

\* ------------------------------------------------------------ pure helpers
\* Array.prototype.includes
Contains(s, x) == \E i \in 1..Len(s) : s[i] = x

\* Array.prototype.indexOf, 1-based, 0 when absent
IndexOf(s, x) == IF Contains(s, x)
                 THEN CHOOSE i \in 1..Len(s) : s[i] = x /\ \A j \in 1..(i-1) : s[j] # x
                 ELSE 0

\* a splice that drops the last element whatever the index
SpliceTail(s, i) == SubSeq(s, 1, Len(s) - 1)

\* Array.prototype.splice(index, 1)
Splice(s, i) == [j \in 1..(Len(s) - 1) |-> IF j < i THEN s[j] ELSE s[j + 1]]

Range(s) == {s[i] : i \in 1..Len(s)}

\* a trigger condition without the floor on triggerHealthFactor
ShouldTriggerNoFloor(st) ==
  /\ st.automationEnabled
  /\ st.healthFactor <= st.triggerHealthFactor

\* the trigger condition of checkHealthFactors
ShouldTrigger(st) ==
  /\ st.automationEnabled
  /\ st.healthFactor <= st.triggerHealthFactor
  /\ st.triggerHealthFactor > 0

\* the ProtectionData literal built after the first getAccountState
MakeData(a, st, now) ==
  [accountPubkey |-> a,
   healthFactor |-> st.healthFactor,
   triggerHealthFactor |-> st.triggerHealthFactor,
   targetHealthFactor |-> st.targetHealthFactor,
   automationEnabled |-> st.automationEnabled,
   lastChecked |-> now,
   lastTriggered |-> Absent]

\* a slot of `cycles`.  pc: "idle" unused, "waiting" in the sleep of
\* forceCheck, "fetch" / "submit" / "refetch" / "cache" suspended on that
\* await of checkHealthFactors, "done" returned, "rejected" thrown.
\* idx is the position of the array iterator.  History, read by no action:
\* startList (the registry when the invocation entered checkHealthFactors),
\* visited (the addresses whose loop body was entered, with the outcome of
\* the first getAccountState), mutated (add/remove ran while it was
\* suspended), ran (it got past the early returns), stopped (stop() ran
\* while it was suspended).
IdleCycle ==
  [pc |-> "idle", origin |-> "none", idx |-> 0, now |-> 0, addr |-> Null,
   data |-> NoData, results |-> <<>>,
   startList |-> <<>>, visited |-> <<>>, mutated |-> FALSE, ran |-> FALSE,
   stopped |-> FALSE]

\* no add/remove call was made yet
NoWire == [op |-> "none"]
NoCall == [op |-> "none", arg |-> Null, returned |-> FALSE]

IdleRewrite == [pc |-> "idle", data |-> <<>>]
DoneRewrite == [pc |-> "done", data |-> <<>>]

Active == {"fetch", "submit", "refetch", "cache"}
InProgress(c) == cycles[c].pc \in Active
AnyInProgress == \E c \in Slots : InProgress(c)

Visit(rec, a, ok) == Append(rec.visited, [addr |-> a, ok |-> ok])

\* ------------------------------------------------- checkHealthFactors body
\* The for..of loop from the iterator position rec.idx on, up to the next
\* await: an address that is not a public key throws inside the try and the
\* loop goes on; a valid one suspends the cycle on getAccountState; at the end
\* of the array the cycle calls updateCache(results) and suspends on setCache.
RECURSIVE RunLoop(_, _)
RunLoop(rec, reg) ==
  IF rec.idx >= Len(reg)
  THEN [rec EXCEPT !.pc = "cache", !.addr = Null, !.data = NoData]
  ELSE LET a == reg[rec.idx + 1] IN
       IF ValidPubkey(a)
       THEN [rec EXCEPT !.pc = "fetch", !.idx = rec.idx + 1, !.addr = a, !.data = NoData]
       ELSE RunLoop([rec EXCEPT !.idx = rec.idx + 1, !.visited = Visit(rec, a, FALSE)],
                    reg)

\* checkHealthFactors up to its first await, called with the service state
\* (kp, reg) at time t.  An early return leaves nothing behind, except that
\* the slot of a forceCheck holds what the call returned.
EnterCheck(org, kp, reg, t) ==
  IF ~kp \/ Len(reg) = 0
  THEN IF org = "force"
       THEN [IdleCycle EXCEPT !.pc = "done", !.origin = org, !.startList = reg]
       ELSE IdleCycle
  ELSE RunLoop([IdleCycle EXCEPT !.origin = org, !.now = t, !.startList = reg,
                                 !.ran = TRUE], reg)

\* this.isMonitoring after checkHealthFactors was entered
MonitoringAfterEnter(kp, reg, before) ==
  IF ~kp \/ Len(reg) = 0 THEN before ELSE TRUE

\* the lowest unused slot stands for a new invocation
FreeSlot(c) == /\ cycles[c].pc = "idle"
               /\ \A d \in Slots : d < c => cycles[d].pc # "idle"

\* a start() that pushes every cached address
StartRegistryNoSkip(acct, cached) ==
  LET base == IF acct = NoAccount THEN <<>> ELSE <<acct>>
      list == IF cached.present THEN cached.value ELSE <<>>
  IN base \o [i \in 1..Len(list) |-> list[i].accountPubkey]

\* the registry when static start() returns: the constructor pushes the
\* configured account, start() merges the cached addresses
StartRegistry(acct, cached) ==
  LET base == IF acct = NoAccount THEN <<>> ELSE <<acct>>
      list == IF cached.present THEN cached.value ELSE <<>>
      Merge[i \in 0..Len(list)] ==
        IF i = 0 THEN base
        ELSE IF Contains(Merge[i - 1], list[i].accountPubkey)
             THEN Merge[i - 1]
             ELSE Append(Merge[i - 1], list[i].accountPubkey)
  IN Merge[Len(list)]

\* a start() whose initial check runs before the cache is merged
StartCyclesBeforeLoad(kp, reg, t) ==
  [c \in Slots |-> IF c = 1
                   THEN EnterCheck("initial", kp,
                                   IF Len(reg) > 1 THEN <<reg[1]>> ELSE reg, t)
                   ELSE IdleCycle]

\* the initial check of start()
StartCycles(kp, reg, t) ==
  [c \in Slots |-> IF c = 1 THEN EnterCheck("initial", kp, reg, t) ELSE IdleCycle]

\* the single-account service (part 2): its state
Variants == {"part_001", "part_002"}
NoState == [healthFactor |-> Absent, triggerHealthFactor |-> Absent,
            targetHealthFactor |-> Absent, automationEnabled |-> FALSE]
\* the DCA fields of the account data as checkAndExecuteDCA decodes them
Tokens == {"T1", "T2"}
DcaIntervals == {0, 1, MaxInterval}
DcaState == [dcaEnabled : BOOLEAN, dcaInterval : DcaIntervals \cup {DayInterval},
             tokenAddress : Tokens, tokenAmount : 1..MaxAmount]
NoDca == [dcaEnabled |-> FALSE, dcaInterval |-> 0,
          tokenAddress |-> Null, tokenAmount |-> 0]
DcaFetchResult ==
  {[error |-> "NotFound"]} \cup {d \in DcaState : d.dcaInterval \in DcaIntervals}

\* the price-trade fields of the account data as checkAndExecutePriceTrade
\* decodes them
PtState == [priceTradingEnabled : BOOLEAN, targetPrice : {0, TargetPrice},
            tokenAddress : Tokens]
NoPt == [priceTradingEnabled |-> FALSE, targetPrice |-> 0, tokenAddress |-> Null]
PtFetchResult == {[error |-> "NotFound"]} \cup PtState

\* a price of the mock price service, a JavaScript number: floor is its
\* integer part and frac tells whether a fractional part follows (the prices
\* start at 1.0 and 100.0 and are multiplied by 1 + (Math.random() - 0.5) * 0.1
\* on every update); NoPrice: the token has no mock price
Price == [floor : {TargetPrice - PriceSpread, TargetPrice, TargetPrice + PriceSpread},
          frac : BOOLEAN]
NoPrice == [floor |-> Absent, frac |-> FALSE]
PriceResult == Price \cup {NoPrice}

IdleTick == [pc |-> "idle", decoded |-> NoState, submitted |-> FALSE,
             now |-> 0, dca |-> NoDca, bought |-> FALSE,
             pt |-> NoPt, price |-> NoPrice]

\* Date.now() in milliseconds: the process first starts EpochSeconds after
\* the epoch and clock counts the seconds since
DateNow(t) == (EpochSeconds + t) * MsPerSecond

\* an account whose DCA was never set
DcaOff == [dcaEnabled |-> FALSE, dcaInterval |-> 0,
           tokenAddress |-> "T1", tokenAmount |-> 1]

\* the service after its constructor; lastBuy is history: the last mockBuy
\* that succeeded, with the now of its tick, the state it decoded and the
\* process (number of restarts before it) that made it
NoBuy == [at |-> Absent, dca |-> NoDca, proc |-> 0]
SaNew(v) == [variant |-> v, automation |-> FALSE, checkInterval |-> FALSE,
             lastDCATime |-> 0, lastBuy |-> NoBuy,
             ticks |-> [c \in Slots |-> IdleTick]]

\* ------------------------------------------------------------------- Init
\* the multi-account service as static start() leaves it on an empty cache
InitService ==
  /\ cfgKey \in BOOLEAN
  /\ cfgAccount \in ConfigAccounts
  /\ keypair = cfgKey
  /\ cache = NoCache
  /\ clock = 0
  /\ accountPubkeys = StartRegistry(cfgAccount, NoCache)
  /\ updateInterval = TRUE
  /\ isMonitoring = MonitoringAfterEnter(cfgKey, StartRegistry(cfgAccount, NoCache), FALSE)
  /\ cycles = StartCycles(cfgKey, StartRegistry(cfgAccount, NoCache), 0)
  /\ rewrites = [r \in RSlots |-> IdleRewrite]
  /\ restarts = 0
  /\ lastCall = NoCall

InitMulti == InitService /\ wire = NoWire

\* ---------------------------------------------------------------- actions
\* the process dies and is started again: static start() against the cache
Restart ==
  LET reg == StartRegistry(cfgAccount, cache) IN
  /\ restarts < MaxRestarts
  /\ restarts' = restarts + 1
  /\ keypair' = cfgKey
  /\ accountPubkeys' = reg
  /\ updateInterval' = TRUE
  /\ isMonitoring' = MonitoringAfterEnter(cfgKey, reg, FALSE)
  /\ cycles' = StartCycles(cfgKey, reg, clock)
  /\ rewrites' = [r \in RSlots |-> IdleRewrite]
  /\ lastCall' = NoCall
  /\ UNCHANGED <<cfgKey, cfgAccount, cache, clock, sa, wire>>

AdvanceTime ==
  /\ clock < MaxClock
  /\ clock' = clock + 1
  /\ UNCHANGED <<cfgKey, cfgAccount, keypair, accountPubkeys, updateInterval,
                 isMonitoring, cache, cycles, rewrites, restarts, lastCall, sa, wire>>

invokeFrame == <<cfgKey, cfgAccount, keypair, accountPubkeys, updateInterval,
                 cache, clock, rewrites, restarts, lastCall, sa, wire>>

\* a timer callback that sits out the tick after a cycle that cached nothing
TimerTickBackoff(c) ==
  /\ updateInterval
  /\ FreeSlot(c)
  /\ cycles' = [cycles EXCEPT ![c] =
                  IF cache.present /\ cache.value = <<>>
                  THEN [IdleCycle EXCEPT !.pc = "done", !.origin = "tick"]
                  ELSE EnterCheck("tick", keypair, accountPubkeys, clock)]
  /\ isMonitoring' = IF cache.present /\ cache.value = <<>> THEN isMonitoring
                     ELSE MonitoringAfterEnter(keypair, accountPubkeys, isMonitoring)
  /\ UNCHANGED invokeFrame

\* the setInterval callback of start()
TimerTick(c) ==
  /\ updateInterval
  /\ FreeSlot(c)
  /\ cycles' = [cycles EXCEPT ![c] = EnterCheck("tick", keypair, accountPubkeys, clock)]
  /\ isMonitoring' = MonitoringAfterEnter(keypair, accountPubkeys, isMonitoring)
  /\ UNCHANGED invokeFrame

\* the setInterval callback firing when no cycle is in progress
QuietTick(c) == ~AnyInProgress /\ TimerTick(c)

\* what forceCheck does when called: with a check in progress it sleeps
\* 1000 ms, otherwise it enters checkHealthFactors at once
ForceEnter(monitoring, kp, reg, t) ==
  IF monitoring
  THEN [IdleCycle EXCEPT !.pc = "waiting", !.origin = "force"]
  ELSE EnterCheck("force", kp, reg, t)

\* what forceCheck does when its sleep is over: isMonitoring is not read again
ForceResume(monitoring, kp, reg, t) == EnterCheck("force", kp, reg, t)

\* forceCheck()
ForceCheck(c) ==
  /\ FreeSlot(c)
  /\ cycles' = [cycles EXCEPT ![c] =
                  ForceEnter(isMonitoring, keypair, accountPubkeys, clock)]
  /\ isMonitoring' = IF cycles'[c].pc = "waiting" THEN isMonitoring
                     ELSE MonitoringAfterEnter(keypair, accountPubkeys, isMonitoring)
  /\ UNCHANGED invokeFrame

\* the 1000 ms timeout of forceCheck fires
ForceWake(c) ==
  /\ cycles[c].pc = "waiting"
  /\ cycles' = [cycles EXCEPT ![c] =
                  ForceResume(isMonitoring, keypair, accountPubkeys, clock)]
  /\ isMonitoring' = IF cycles'[c].pc = "waiting" THEN isMonitoring
                     ELSE MonitoringAfterEnter(keypair, accountPubkeys, isMonitoring)
  /\ UNCHANGED invokeFrame

cycleFrame == <<cfgKey, cfgAccount, keypair, accountPubkeys, updateInterval,
                isMonitoring, cache, clock, rewrites, restarts, lastCall, sa, wire>>

\* a continuation in which a failed fetch ends the loop
AfterFetchAbort(rec, r, reg) ==
  IF r \in FetchFailures
  THEN [rec EXCEPT !.pc = "cache", !.addr = Null, !.data = NoData,
                   !.visited = Visit(rec, rec.addr, FALSE)]
  ELSE IF ShouldTrigger(r)
  THEN [rec EXCEPT !.pc = "submit",
                   !.data = MakeData(rec.addr, r, rec.now),
                   !.visited = Visit(rec, rec.addr, TRUE)]
  ELSE RunLoop([rec EXCEPT !.results = Append(rec.results,
                                          MakeData(rec.addr, r, rec.now)),
                           !.visited = Visit(rec, rec.addr, TRUE)], reg)

\* the continuation of the first getAccountState of the current address
AfterFetch(rec, r, reg) ==
  IF r \in FetchFailures
  THEN RunLoop([rec EXCEPT !.visited = Visit(rec, rec.addr, FALSE)], reg)
  ELSE IF ShouldTrigger(r)
  THEN [rec EXCEPT !.pc = "submit",
                   !.data = MakeData(rec.addr, r, rec.now),
                   !.visited = Visit(rec, rec.addr, TRUE)]
  ELSE RunLoop([rec EXCEPT !.results = Append(rec.results,
                                          MakeData(rec.addr, r, rec.now)),
                           !.visited = Visit(rec, rec.addr, TRUE)], reg)

FetchReturn(c, r) ==
  /\ cycles[c].pc = "fetch"
  /\ cycles' = [cycles EXCEPT ![c] = AfterFetch(cycles[c], r, accountPubkeys)]
  /\ UNCHANGED cycleFrame

\* the continuation of automation.autoRepay()
AfterSubmit(rec, ok, reg) ==
  IF ok
  THEN [rec EXCEPT !.pc = "refetch"]
  ELSE RunLoop([rec EXCEPT !.results = Append(rec.results, rec.data)], reg)

SubmitReturn(c, ok) ==
  /\ cycles[c].pc = "submit"
  /\ cycles' = [cycles EXCEPT ![c] = AfterSubmit(cycles[c], ok, accountPubkeys)]
  /\ UNCHANGED cycleFrame

\* the continuation of the getAccountState after a successful autoRepay
AfterRefetch(rec, r, reg) ==
  IF r \in FetchFailures
  THEN RunLoop([rec EXCEPT !.results = Append(rec.results, rec.data)], reg)
  ELSE RunLoop([rec EXCEPT !.results = Append(rec.results,
                   [rec.data EXCEPT !.healthFactor = r.healthFactor,
                                    !.lastTriggered = rec.now])], reg)

RefetchReturn(c, r) ==
  /\ cycles[c].pc = "refetch"
  /\ cycles' = [cycles EXCEPT ![c] = AfterRefetch(cycles[c], r, accountPubkeys)]
  /\ UNCHANGED cycleFrame

\* what an invocation leaves in its slot once it has settled; the slot of a
\* forceCheck holds the list the call returned
Settled(rec, how) ==
  [IdleCycle EXCEPT !.pc = how, !.ran = rec.ran, !.stopped = rec.stopped,
                    !.origin = IF rec.origin = "force" THEN "force" ELSE "timer",
                    !.results = IF rec.origin = "force" /\ how = "done"
                                THEN rec.results ELSE <<>>]

\* setCache of updateCache(results) settles
CacheReturn(c, ok) ==
  /\ cycles[c].pc = "cache"
  /\ IF ok
     THEN /\ cache' = Cached(cycles[c].results)
          /\ isMonitoring' = FALSE
          /\ cycles' = [cycles EXCEPT ![c] = Settled(cycles[c], "done")]
     ELSE /\ cycles' = [cycles EXCEPT ![c] = Settled(cycles[c], "rejected")]
          /\ UNCHANGED <<cache, isMonitoring>>
  /\ UNCHANGED <<cfgKey, cfgAccount, keypair, accountPubkeys, updateInterval,
                 clock, rewrites, restarts, lastCall, sa, wire>>

\* ------------------------------------------------------ registry mutation
FreeRewrite(r) == /\ rewrites[r].pc = "idle"
                  /\ \A q \in RSlots : q < r => rewrites[q].pc # "idle"

\* history: a cycle that is suspended while the registry changes
MarkMutated == [c \in Slots |-> IF InProgress(c)
                                THEN [cycles[c] EXCEPT !.mutated = TRUE]
                                ELSE cycles[c]]

mutateFrame == <<cfgKey, cfgAccount, keypair, updateInterval, isMonitoring,
                 cache, clock, restarts, sa, wire>>

\* an addAccountToMonitor without the includes test
AddWithoutIncludes(a, r) ==
  /\ FreeRewrite(r)
  /\ accountPubkeys' = Append(accountPubkeys, a)
  /\ rewrites' = [rewrites EXCEPT ![r] = [pc |-> "read", data |-> <<>>]]
  /\ cycles' = MarkMutated
  /\ lastCall' = [op |-> "add", arg |-> a, returned |-> TRUE]
  /\ UNCHANGED mutateFrame

\* addAccountToMonitor(a): push, then updateCache() without data, not awaited
AddAccountToMonitor(a, r) ==
  /\ ~Contains(accountPubkeys, a)
  /\ FreeRewrite(r)
  /\ accountPubkeys' = Append(accountPubkeys, a)
  /\ rewrites' = [rewrites EXCEPT ![r] = [pc |-> "read", data |-> <<>>]]
  /\ cycles' = MarkMutated
  /\ lastCall' = [op |-> "add", arg |-> a, returned |-> TRUE]
  /\ UNCHANGED mutateFrame

\* addAccountToMonitor(a) for an address already present returns false
AddPresent(a) ==
  /\ Contains(accountPubkeys, a)
  /\ lastCall' = [op |-> "add", arg |-> a, returned |-> FALSE]
  /\ UNCHANGED <<accountPubkeys, rewrites, cycles>>
  /\ UNCHANGED mutateFrame

\* removeAccountFromMonitor(a): splice, then updateCache() without data
RemoveAccountFromMonitor(a, r) ==
  /\ IndexOf(accountPubkeys, a) # 0
  /\ FreeRewrite(r)
  /\ accountPubkeys' = Splice(accountPubkeys, IndexOf(accountPubkeys, a))
  /\ rewrites' = [rewrites EXCEPT ![r] = [pc |-> "read", data |-> <<>>]]
  /\ cycles' = MarkMutated
  /\ lastCall' = [op |-> "remove", arg |-> a, returned |-> TRUE]
  /\ UNCHANGED mutateFrame

\* removeAccountFromMonitor(a) for an absent address returns false
RemoveAbsent(a) ==
  /\ IndexOf(accountPubkeys, a) = 0
  /\ lastCall' = [op |-> "remove", arg |-> a, returned |-> FALSE]
  /\ UNCHANGED <<accountPubkeys, rewrites, cycles>>
  /\ UNCHANGED mutateFrame

rewriteFrame == <<cfgKey, cfgAccount, keypair, accountPubkeys, updateInterval,
                  isMonitoring, clock, cycles, restarts, lastCall, sa, wire>>

\* updateCache() without data: getCachedData settles; no cached value ends
\* the call, otherwise the value read is handed to setCache
RewriteRead(r) ==
  /\ rewrites[r].pc = "read"
  /\ rewrites' = [rewrites EXCEPT ![r] =
                    IF ~cache.present THEN DoneRewrite
                    ELSE [pc |-> "write", data |-> cache.value]]
  /\ UNCHANGED cache
  /\ UNCHANGED rewriteFrame

\* updateCache() without data: setCache settles
RewriteWrite(r, ok) ==
  /\ rewrites[r].pc = "write"
  /\ cache' = IF ok THEN Cached(rewrites[r].data) ELSE cache
  /\ rewrites' = [rewrites EXCEPT ![r] = DoneRewrite]
  /\ UNCHANGED rewriteFrame

\* history: a cycle that is suspended while stop() runs
MarkStopped == [c \in Slots |-> IF InProgress(c)
                                THEN [cycles[c] EXCEPT !.stopped = TRUE]
                                ELSE cycles[c]]

\* a stop() that drops the invocations in flight
StopAborting ==
  /\ updateInterval' = FALSE
  /\ isMonitoring' = FALSE
  /\ cycles' = [c \in Slots |-> IF InProgress(c)
                                 THEN Settled([cycles[c] EXCEPT !.stopped = TRUE],
                                              "rejected")
                                 ELSE cycles[c]]
  /\ UNCHANGED <<cfgKey, cfgAccount, keypair, accountPubkeys, cache, clock,
                 rewrites, restarts, lastCall, sa, wire>>

\* getAccountStatus(a) once its getCachedData has settled: the entry of a in
\* the cached list, NoData standing for null
getAccountStatus(a) ==
  IF cache.present /\ \E i \in 1..Len(cache.value) : cache.value[i].accountPubkey = a
  THEN cache.value[CHOOSE i \in 1..Len(cache.value) :
                     /\ cache.value[i].accountPubkey = a
                     /\ \A j \in 1..(i - 1) : cache.value[j].accountPubkey # a]
  ELSE NoData

\* stop(): the interval is cleared and the flag reset; the invocations of
\* checkHealthFactors in flight are left to themselves
Stop ==
  /\ updateInterval' = FALSE
  /\ isMonitoring' = FALSE
  /\ cycles' = MarkStopped
  /\ UNCHANGED <<cfgKey, cfgAccount, keypair, accountPubkeys, cache, clock,
                 rewrites, restarts, lastCall, sa, wire>>

\* ---------------------------------------------------------- specifications
Init == InitMulti /\ sa = SaNew("none")

Invoke ==
  \/ \E c \in Slots : TimerTick(c)
  \/ \E c \in Slots : ForceCheck(c)
  \/ \E c \in Slots : ForceWake(c)

Mutate ==
  \/ \E a \in Addr, r \in RSlots : AddAccountToMonitor(a, r)
  \/ \E a \in Addr : AddPresent(a)
  \/ \E a \in Addr, r \in RSlots : RemoveAccountFromMonitor(a, r)
  \/ \E a \in Addr : RemoveAbsent(a)
  \/ \E r \in RSlots : RewriteRead(r)
  \/ \E r \in RSlots, ok \in BOOLEAN : RewriteWrite(r, ok)

\* one process: start, timer, forceCheck, add/remove, stop
Next ==
  \/ Stop
  \/ Invoke
  \/ Mutate
  \/ \E c \in Slots, r \in SampleResult : FetchReturn(c, r)
  \/ \E c \in Slots, ok \in BOOLEAN : SubmitReturn(c, ok)
  \/ \E c \in Slots, r \in RepaidResult : RefetchReturn(c, r)
  \/ \E c \in Slots, ok \in BOOLEAN : CacheReturn(c, ok)

Spec == Init /\ [][Next]_vars

\* the event loop: the sleep of a forceCheck ends, pending calls settle
Fairness ==
  \A c \in Slots :
    /\ WF_vars(ForceWake(c))
    /\ WF_vars(\E r \in SampleResult : FetchReturn(c, r))
    /\ WF_vars(\E ok \in BOOLEAN : SubmitReturn(c, ok))
    /\ WF_vars(\E r \in RepaidResult : RefetchReturn(c, r))
    /\ WF_vars(\E ok \in BOOLEAN : CacheReturn(c, ok))

\* one process under forced checks: timer, forceCheck, stop, and a registry
\* that only shrinks
NextForce ==
  \/ Stop
  \/ Invoke
  \/ \E a \in Addr, r \in RSlots : RemoveAccountFromMonitor(a, r)
  \/ \E r \in RSlots : RewriteRead(r)
  \/ \E r \in RSlots, ok \in BOOLEAN : RewriteWrite(r, ok)
  \/ \E c \in Slots, r \in SampleResult : FetchReturn(c, r)
  \/ \E c \in Slots, ok \in BOOLEAN : SubmitReturn(c, ok)
  \/ \E c \in Slots, r \in RepaidResult : RefetchReturn(c, r)
  \/ \E c \in Slots, ok \in BOOLEAN : CacheReturn(c, ok)

SpecForce == Init /\ [][NextForce]_vars /\ Fairness

\* processes that are restarted before their timer first fires: the initial
\* check of each process, add/remove
NextRestart ==
  \/ Restart
  \/ Mutate
  \/ \E c \in Slots, r \in SampleResult : FetchReturn(c, r)
  \/ \E c \in Slots, ok \in BOOLEAN : SubmitReturn(c, ok)
  \/ \E c \in Slots, r \in RepaidResult : RefetchReturn(c, r)
  \/ \E c \in Slots, ok \in BOOLEAN : CacheReturn(c, ok)

SpecRestart == Init /\ [][NextRestart]_vars

\* the registry of a process started on a cache left by earlier processes,
\* which may repeat an address or hold the configured account
CachedLists ==
  UNION {[1..n -> {MakeData(a, Healthy, 0) : a \in {"A", "B"}}] : n \in 0..MaxCached}

InitRegistry ==
  /\ cfgKey \in BOOLEAN
  /\ cfgAccount \in ConfigAccounts
  /\ keypair = cfgKey
  /\ cache \in {NoCache} \cup {Cached(l) : l \in CachedLists}
  /\ clock = 0
  /\ accountPubkeys = StartRegistry(cfgAccount, cache)
  /\ updateInterval = TRUE
  /\ isMonitoring = MonitoringAfterEnter(cfgKey, accountPubkeys, FALSE)
  /\ cycles = StartCycles(cfgKey, accountPubkeys, 0)
  /\ rewrites = [r \in RSlots |-> IdleRewrite]
  /\ restarts = 0
  /\ lastCall = NoCall
  /\ wire = NoWire
  /\ sa = SaNew("none")

\* add/remove calls and restarts while the initial check awaits the chain
NextRegistry ==
  \/ Restart
  \/ Mutate

SpecRegistry == InitRegistry /\ [][NextRegistry]_vars

\* a process that is stopped while its initial check, on the registry of any
\* cache found at start, awaits the chain
NextStop ==
  \/ Stop
  \/ \E c \in Slots, r \in SampleResult : FetchReturn(c, r)
  \/ \E c \in Slots, ok \in BOOLEAN : SubmitReturn(c, ok)
  \/ \E c \in Slots, r \in RepaidResult : RefetchReturn(c, r)
  \/ \E c \in Slots, ok \in BOOLEAN : CacheReturn(c, ok)

SpecStop == InitRegistry /\ [][NextStop]_vars

\* the check cycle on every decodable account state; the chain answers
\* within the timer period, so that a tick finds no cycle in progress
NextEval ==
  \/ AdvanceTime
  \/ \E c \in Slots : QuietTick(c)
  \/ \E c \in Slots, r \in FetchResult : FetchReturn(c, r)
  \/ \E c \in Slots, ok \in BOOLEAN : SubmitReturn(c, ok)
  \/ \E c \in Slots, r \in FetchResult : RefetchReturn(c, r)
  \/ \E c \in Slots, ok \in BOOLEAN : CacheReturn(c, ok)

SpecEval == Init /\ [][NextEval]_vars

\* ================================================================== part 2
\* The single-account services: unnamed/part_001 (protection, DCA and price
\* trade on one tick) and unnamed/part_002 (protection only).  sa.ticks holds
\* the invocations of the timer callback; decoded and submitted are history:
\* the state checkAndTriggerProtection decoded, whether it called
\* autoRepay, whether a mockBuy of the tick succeeded, and the price-trade
\* state and the price checkAndExecutePriceTrade read.  In part_001 the
\* callback goes on to checkAndExecuteDCA and then to
\* checkAndExecutePriceTrade.
\* the trigger condition of checkAndTriggerProtection (both variants)
SaShouldTrigger(st) ==
  /\ st.automationEnabled
  /\ st.healthFactor <= st.triggerHealthFactor

saFrame == <<cfgKey, cfgAccount, keypair, accountPubkeys, updateInterval,
             isMonitoring, cache, clock, cycles, rewrites, restarts, lastCall, wire>>

\* initialize(): throws on a missing key, a missing account or an account
\* string that is no public key; otherwise sets the automation and calls
\* startHealthCheck()
SaInitialize ==
  /\ sa' = IF cfgKey /\ cfgAccount # NoAccount /\ ValidPubkey(cfgAccount)
           THEN [sa EXCEPT !.automation = TRUE, !.checkInterval = TRUE]
           ELSE sa
  /\ UNCHANGED saFrame

SaFreeSlot(c) == /\ sa.ticks[c].pc = "idle"
                 /\ \A d \in Slots : d < c => sa.ticks[d].pc # "idle"

\* the setInterval callback: checkAndTriggerProtection up to getAccountState
SaTick(c) ==
  /\ sa.checkInterval
  /\ SaFreeSlot(c)
  /\ sa' = IF sa.automation
           THEN [sa EXCEPT !.ticks[c].pc = "fetch"]
           ELSE [sa EXCEPT !.ticks[c].pc = "done"]
  /\ UNCHANGED saFrame

\* checkAndTriggerProtection returns: the callback of part_001 calls
\* checkAndExecuteDCA, which asks for the account info; part_002 is done
AfterProtection(v) == IF v = "part_001" THEN "dcaFetch" ELSE "done"

\* the continuation of getAccountState in checkAndTriggerProtection
SaAfterFetch(t, r, v) ==
  IF r \in FetchFailures
  THEN [t EXCEPT !.pc = AfterProtection(v)]
  ELSE IF SaShouldTrigger(r)
  THEN [t EXCEPT !.pc = "submit", !.decoded = r, !.submitted = TRUE]
  ELSE [t EXCEPT !.pc = AfterProtection(v), !.decoded = r]

SaFetchReturn(c, r) ==
  /\ sa.ticks[c].pc = "fetch"
  /\ sa' = [sa EXCEPT !.ticks[c] = SaAfterFetch(sa.ticks[c], r, sa.variant)]
  /\ UNCHANGED saFrame

\* autoRepay settles: on success the state is read again, a failure is caught
SaSubmitReturn(c, ok) ==
  /\ sa.ticks[c].pc = "submit"
  /\ sa' = [sa EXCEPT !.ticks[c].pc =
                        IF ok THEN "refetch" ELSE AfterProtection(sa.variant)]
  /\ UNCHANGED saFrame

\* the second getAccountState settles; its result is only logged
SaRefetchReturn(c, r) ==
  /\ sa.ticks[c].pc = "refetch"
  /\ sa' = [sa EXCEPT !.ticks[c].pc = AfterProtection(sa.variant)]
  /\ UNCHANGED saFrame

\* a DCA condition that ignores the time of the last purchase
DcaDueAlways(d, last, now) ==
  /\ d.dcaEnabled
  /\ d.dcaInterval > 0

\* the DCA condition of checkAndExecuteDCA
DcaDue(d, last, now) ==
  /\ d.dcaEnabled
  /\ d.dcaInterval > 0
  /\ now - last >= d.dcaInterval * MsPerSecond

\* the continuation of getAccountInfo in checkAndExecuteDCA: a missing
\* account throws into the catch; a disabled or zero interval returns; else
\* now is read and, when the interval has passed since lastDCATime, mockBuy
\* is called with the decoded token and amount.  When checkAndExecuteDCA
\* returns the callback calls checkAndExecutePriceTrade, which asks for the
\* account info ("ptFetch")
SaAfterDcaFetch(t, r, last, now) ==
  IF r \notin DcaState
  THEN [t EXCEPT !.pc = "ptFetch"]
  ELSE IF DcaDue(r, last, now)
  THEN [t EXCEPT !.pc = "dcaBuy", !.dca = r, !.now = now]
  ELSE [t EXCEPT !.pc = "ptFetch", !.dca = r, !.now = now]

SaDcaFetchReturn(c, r) ==
  /\ sa.ticks[c].pc = "dcaFetch"
  /\ sa' = [sa EXCEPT !.ticks[c] =
              SaAfterDcaFetch(sa.ticks[c], r, sa.lastDCATime, DateNow(clock))]
  /\ UNCHANGED saFrame

\* a mockBuy continuation that forgets to record the time of the purchase
SaBuyReturnNoStamp(c, ok) ==
  /\ sa.ticks[c].pc = "dcaBuy"
  /\ sa' = IF ok
           THEN [sa EXCEPT !.ticks[c].pc = "ptFetch",
                           !.ticks[c].bought = TRUE,
                           !.lastBuy = [at |-> sa.ticks[c].now,
                                        dca |-> sa.ticks[c].dca,
                                        proc |-> restarts]]
           ELSE [sa EXCEPT !.ticks[c].pc = "ptFetch"]
  /\ UNCHANGED saFrame

\* a mockBuy continuation that records the time of a failed purchase too
SaBuyReturnStampAlways(c, ok) ==
  /\ sa.ticks[c].pc = "dcaBuy"
  /\ sa' = IF ok
           THEN [sa EXCEPT !.ticks[c].pc = "ptFetch",
                           !.ticks[c].bought = TRUE,
                           !.lastDCATime = sa.ticks[c].now,
                           !.lastBuy = [at |-> sa.ticks[c].now,
                                        dca |-> sa.ticks[c].dca,
                                        proc |-> restarts]]
           ELSE [sa EXCEPT !.ticks[c].pc = "ptFetch",
                           !.lastDCATime = sa.ticks[c].now]
  /\ UNCHANGED saFrame

\* mockBuy settles: on success lastDCATime becomes the now read before the
\* call; a failure is caught
SaBuyReturn(c, ok) ==
  /\ sa.ticks[c].pc = "dcaBuy"
  /\ sa' = IF ok
           THEN [sa EXCEPT !.ticks[c].pc = "ptFetch",
                           !.ticks[c].bought = TRUE,
                           !.lastDCATime = sa.ticks[c].now,
                           !.lastBuy = [at |-> sa.ticks[c].now,
                                        dca |-> sa.ticks[c].dca,
                                        proc |-> restarts]]
           ELSE [sa EXCEPT !.ticks[c].pc = "ptFetch"]
  /\ UNCHANGED saFrame

\* currentPrice <= targetPrice, the target being an integer
PriceAtMost(p, target) == IF p.frac THEN p.floor < target ELSE p.floor <= target

\* a price-trade continuation that trades on a token without a price
SaAfterPtFetchNoThrow(t, r, p) ==
  IF r \notin PtState
  THEN [t EXCEPT !.pc = "done"]
  ELSE IF ~r.priceTradingEnabled \/ r.targetPrice <= 0
  THEN [t EXCEPT !.pc = "done", !.pt = r]
  ELSE IF p = NoPrice \/ (PriceAtMost(p, r.targetPrice) /\ ~p.frac)
  THEN [t EXCEPT !.pc = "ptTrade", !.pt = r, !.price = p]
  ELSE [t EXCEPT !.pc = "done", !.pt = r, !.price = p]

\* the continuation of getAccountInfo in checkAndExecutePriceTrade: a missing
\* account throws into the catch; a disabled trade or a zero target returns;
\* getCurrentPrice throws when the token has no mock price; when the price
\* is at most the target, executePriceTrade(currentPrice) is called: it
\* builds the instruction with BigInt(currentPrice), which throws a
\* RangeError on a number that is not an integer, and else sends it
SaAfterPtFetch(t, r, p) ==
  IF r \notin PtState
  THEN [t EXCEPT !.pc = "done"]
  ELSE IF ~r.priceTradingEnabled \/ r.targetPrice <= 0
  THEN [t EXCEPT !.pc = "done", !.pt = r]
  ELSE IF p = NoPrice
  THEN [t EXCEPT !.pc = "done", !.pt = r]
  ELSE IF PriceAtMost(p, r.targetPrice) /\ ~p.frac
  THEN [t EXCEPT !.pc = "ptTrade", !.pt = r, !.price = p]
  ELSE [t EXCEPT !.pc = "done", !.pt = r, !.price = p]

SaPtFetchReturn(c, r, p) ==
  /\ sa.ticks[c].pc = "ptFetch"
  /\ sa' = [sa EXCEPT !.ticks[c] = SaAfterPtFetch(sa.ticks[c], r, p)]
  /\ UNCHANGED saFrame

\* executePriceTrade settles; a failure is caught
SaTradeReturn(c, ok) ==
  /\ sa.ticks[c].pc = "ptTrade"
  /\ sa' = [sa EXCEPT !.ticks[c].pc = "done"]
  /\ UNCHANGED saFrame

\* stop()
SaStop ==
  /\ sa' = [sa EXCEPT !.checkInterval = FALSE]
  /\ UNCHANGED saFrame

\* the process ends and a new one constructs the service: every field is
\* as the constructor leaves it, the pending callbacks are gone; what was
\* bought stays bought
SaRestart ==
  /\ restarts < MaxRestarts
  /\ restarts' = restarts + 1
  /\ sa' = [SaNew(sa.variant) EXCEPT !.lastBuy = sa.lastBuy]
  /\ UNCHANGED <<cfgKey, cfgAccount, keypair, accountPubkeys, updateInterval,
                 isMonitoring, cache, clock, cycles, rewrites, lastCall, wire>>

\* the two services on an account whose DCA is not set and whose
\* price-trade fields cannot be read
InitSingle == InitMulti /\ sa \in {SaNew(v) : v \in Variants}

NextSingle ==
  \/ SaInitialize
  \/ SaStop
  \/ \E c \in Slots : SaTick(c)
  \/ \E c \in Slots, r \in FetchResult : SaFetchReturn(c, r)
  \/ \E c \in Slots, ok \in BOOLEAN : SaSubmitReturn(c, ok)
  \/ \E c \in Slots, r \in FetchResult : SaRefetchReturn(c, r)
  \/ \E c \in Slots, r \in {[error |-> "NotFound"], DcaOff} : SaDcaFetchReturn(c, r)
  \/ \E c \in Slots : SaPtFetchReturn(c, [error |-> "NotFound"], NoPrice)

SpecSingle == InitSingle /\ [][NextSingle]_vars

\* the DCA check of part_001 over every decodable DCA state, on an account
\* that is healthy or cannot be read, with the clock advancing and the
\* process restarting
InitDca == InitMulti /\ sa = SaNew("part_001")

NextDca ==
  \/ SaInitialize
  \/ SaStop
  \/ SaRestart
  \/ AdvanceTime
  \/ \E c \in Slots : SaTick(c)
  \/ \E c \in Slots, r \in {[error |-> "NotFound"], Healthy} : SaFetchReturn(c, r)
  \/ \E c \in Slots, r \in DcaFetchResult : SaDcaFetchReturn(c, r)
  \/ \E c \in Slots, ok \in BOOLEAN : SaBuyReturn(c, ok)
  \/ \E c \in Slots : SaPtFetchReturn(c, [error |-> "NotFound"], NoPrice)

SpecDca == InitDca /\ [][NextDca]_vars

\* a tick that fires when no earlier callback is pending
SaQuietTick(c) ==
  /\ \A d \in Slots : sa.ticks[d].pc \in {"idle", "done"}
  /\ SaTick(c)

\* the DCA checks of one process of part_001 that follow one another, over
\* every decodable DCA state, on an account whose protection state cannot be
\* read, with the clock advancing
InitDcaEval == InitDca /\ cfgKey /\ cfgAccount = "A"

NextDcaEval ==
  \/ SaInitialize
  \/ AdvanceTime
  \/ \E c \in Slots : SaQuietTick(c)
  \/ \E c \in Slots : SaFetchReturn(c, [error |-> "NotFound"])
  \/ \E c \in Slots, r \in DcaFetchResult : SaDcaFetchReturn(c, r)
  \/ \E c \in Slots, ok \in BOOLEAN : SaBuyReturn(c, ok)
  \/ \E c \in Slots : SaPtFetchReturn(c, [error |-> "NotFound"], NoPrice)

SpecDcaEval == InitDcaEval /\ [][NextDcaEval]_vars

\* the daily-purchase scenario: an account that buys once a day, checked by
\* one process whose ticks follow one another; the clock passes through the
\* first seconds of the process and the seconds from GapSeconds after the
\* epoch on
DayDca == [dcaEnabled |-> TRUE, dcaInterval |-> DayInterval,
           tokenAddress |-> "T1", tokenAmount |-> 1]

DayClocks == (0..MaxClock) \cup {GapSeconds - EpochSeconds + t : t \in 0..MaxClock}

SaElapse(d) ==
  /\ clock + d \in DayClocks
  /\ clock' = clock + d
  /\ UNCHANGED <<cfgKey, cfgAccount, keypair, accountPubkeys, updateInterval,
                 isMonitoring, cache, cycles, rewrites, restarts, lastCall, sa, wire>>

NextDcaDay ==
  \/ SaInitialize
  \/ \E d \in {1, GapSeconds - EpochSeconds} : SaElapse(d)
  \/ \E c \in Slots : SaQuietTick(c)
  \/ \E c \in Slots : SaFetchReturn(c, [error |-> "NotFound"])
  \/ \E c \in Slots, r \in {[error |-> "NotFound"], DayDca} : SaDcaFetchReturn(c, r)
  \/ \E c \in Slots, ok \in BOOLEAN : SaBuyReturn(c, ok)
  \/ \E c \in Slots : SaPtFetchReturn(c, [error |-> "NotFound"], NoPrice)

SpecDcaDay == InitDcaEval /\ [][NextDcaDay]_vars

\* the price-trade checks of one process of part_001 that follow one
\* another, over every decodable price-trade state and every price, on an
\* account whose protection and DCA state cannot be read
NextPrice ==
  \/ SaInitialize
  \/ \E c \in Slots : SaQuietTick(c)
  \/ \E c \in Slots : SaFetchReturn(c, [error |-> "NotFound"])
  \/ \E c \in Slots : SaDcaFetchReturn(c, [error |-> "NotFound"])
  \/ \E c \in Slots, r \in PtFetchResult, p \in PriceResult : SaPtFetchReturn(c, r, p)
  \/ \E c \in Slots, ok \in BOOLEAN : SaTradeReturn(c, ok)

SpecPrice == InitDcaEval /\ [][NextPrice]_vars

\* ================================================================== part 3
\* The account codec: how getAccountState (unnamed/part_003),
\* checkAndExecuteDCA and checkAndExecutePriceTrade (unnamed/part_001) read
\* the account data.  The data is a Node.js Buffer: a view of len bytes at
\* byte offset off of an ArrayBuffer ab.  Buffer.from(base64) cuts a Buffer
\* shorter than half the pool size out of the shared allocation pool, so ab
\* is the pool and holds other bytes before and after the account's; a
\* Buffer with an ArrayBuffer of its own has off = 0.
\* results that are no byte and no unsigned integer: data[i] past the end,
\* Number(undefined), and a read that throws a RangeError
Undefined == -1
NaN == -2
Throws == -3
RangeError == [error |-> "RangeError"]

\* the little-endian value of a byte sequence
RECURSIVE LEValue(_)
LEValue(b) == IF b = <<>> THEN 0 ELSE b[1] + 256 * LEValue(Tail(b))

\* the k little-endian bytes of n
RECURSIVE LEBytes(_, _)
LEBytes(n, k) == IF k = 0 THEN <<>> ELSE <<n % 256>> \o LEBytes(n \div 256, k - 1)

Zeros(k) == [i \in 1..k |-> 0]
Min(a, b) == IF a <= b THEN a ELSE b

\* the bytes a Buffer shows
BufBytes(b) == SubSeq(b.ab, b.off + 1, b.off + b.len)

\* Buffer.prototype.slice: a view of the same memory, cropped
BufSlice(b, start, end) ==
  LET s == Min(start, b.len)
      e == IF Min(end, b.len) < s THEN s ELSE Min(end, b.len)
  IN [ab |-> b.ab, off |-> b.off + s, len |-> e - s]

\* data[i]
BufAt(b, i) == IF i < b.len THEN b.ab[b.off + i + 1] ELSE Undefined

\* Number(new BigUint64Array(arrayBuffer)[0]): the constructor throws a
\* RangeError unless the byte length is a multiple of 8; the array covers
\* the ArrayBuffer from its first byte; element 0 of an empty array is
\* undefined
FirstU64(ab) ==
  IF Len(ab) % 8 # 0 THEN Throws
  ELSE IF Len(ab) = 0 THEN NaN
  ELSE LEValue(SubSeq(ab, 1, 8))

\* Number(new BigUint64Array(data.slice(start, end).buffer)[0])
ReadU64(data, start, end) == FirstU64(BufSlice(data, start, end).ab)

\* Boolean(data[i])
ReadBool(data, i) == BufAt(data, i) # Undefined /\ BufAt(data, i) # 0

\* the decoding of getAccountState
DecodeAccountState(data) ==
  LET healthFactor == ReadU64(data, 8, 16)
      triggerHealthFactor == ReadU64(data, 16, 24)
      targetHealthFactor == ReadU64(data, 24, 32)
  IN IF Throws \in {healthFactor, triggerHealthFactor, targetHealthFactor}
     THEN RangeError
     ELSE [healthFactor |-> healthFactor,
           triggerHealthFactor |-> triggerHealthFactor,
           targetHealthFactor |-> targetHealthFactor,
           automationEnabled |-> ReadBool(data, 32)]

\* new PublicKey(bytes): the bytes are read as a big-endian number of at most
\* 32 bytes and written back as 32 bytes; more than 32 bytes throw
PublicKeyOf(bytes) == Zeros(32 - Len(bytes)) \o bytes

\* the decoding of checkAndExecuteDCA
DecodeDca(data) ==
  LET dcaInterval == ReadU64(data, 40, 48)
      tokenAmount == ReadU64(data, 80, 88)
  IN IF Throws \in {dcaInterval, tokenAmount}
     THEN RangeError
     ELSE [dcaInterval |-> dcaInterval,
           dcaEnabled |-> ReadBool(data, 88),
           tokenAddress |-> PublicKeyOf(BufBytes(BufSlice(data, 48, 80))),
           tokenAmount |-> tokenAmount]

\* the decoding of checkAndExecutePriceTrade
DecodePriceTrade(data) ==
  LET targetPrice == ReadU64(data, 89, 97)
      tokenAmount == ReadU64(data, 129, 137)
  IN IF Throws \in {targetPrice, tokenAmount}
     THEN RangeError
     ELSE [targetPrice |-> targetPrice,
           priceTradingEnabled |-> ReadBool(data, 137),
           tokenAddress |-> PublicKeyOf(BufBytes(BufSlice(data, 97, 129))),
           tokenAmount |-> tokenAmount]

\* ---- the account data the chain can return
\* the layout of an account: discriminator, the Protection fields, 7 unused
\* bytes, the DCA fields, the PriceTrade fields
AccountLength == 138
TokenBytes(t) == <<t>> \o Zeros(31)
AccountBytes(f) ==
  LEBytes(f.disc, 8) \o LEBytes(f.healthFactor, 8)
    \o LEBytes(f.triggerHealthFactor, 8) \o LEBytes(f.targetHealthFactor, 8)
    \o <<f.automationEnabled>> \o Zeros(7)
    \o LEBytes(f.dcaInterval, 8) \o TokenBytes(f.dcaToken)
    \o LEBytes(f.dcaAmount, 8) \o <<f.dcaEnabled>>
    \o LEBytes(f.targetPrice, 8) \o TokenBytes(f.ptToken)
    \o LEBytes(f.ptAmount, 8) \o <<f.ptEnabled>>

\* field values: small numbers, one of two bytes, flags 0, 1 and another
\* nonzero byte
FieldValues == {1, WideValue}
FlagBytes == {0, 1, 2}
BaseFields ==
  [disc |-> 0, healthFactor |-> 1, triggerHealthFactor |-> 1,
   targetHealthFactor |-> 1, automationEnabled |-> 0,
   dcaInterval |-> 1, dcaToken |-> 1, dcaAmount |-> 1, dcaEnabled |-> 0,
   targetPrice |-> 1, ptToken |-> 1, ptAmount |-> 1, ptEnabled |-> 0]

\* accounts that differ in the discriminator and the Protection fields
ProtectionAccounts ==
  {[BaseFields EXCEPT !.disc = d, !.healthFactor = h, !.triggerHealthFactor = t,
                      !.targetHealthFactor = g, !.automationEnabled = e] :
     d \in {0, WideValue}, h \in FieldValues, t \in FieldValues,
     g \in FieldValues, e \in FlagBytes}

\* accounts that differ in the DCA fields, and in the PriceTrade fields
DcaAccounts ==
  {[BaseFields EXCEPT !.dcaInterval = i, !.dcaToken = t, !.dcaAmount = a,
                      !.dcaEnabled = e] :
     i \in FieldValues, t \in {1, 2}, a \in FieldValues, e \in FlagBytes}
PtAccounts ==
  {[BaseFields EXCEPT !.targetPrice = g, !.ptToken = t, !.ptAmount = a,
                      !.ptEnabled = e] :
     g \in FieldValues, t \in {1, 2}, a \in FieldValues, e \in FlagBytes}

\* how the Buffer is allocated: with an ArrayBuffer of its own, or cut out
\* of the pool behind PoolHead bytes of another allocation and before the
\* rest of the pool
PoolHeads == {0, WideValue + 1}
OwnBuffer(bytes) == [ab |-> bytes, off |-> 0, len |-> Len(bytes)]
PoolBuffer(bytes, head) ==
  [ab |-> LEBytes(head, 8) \o bytes \o Zeros(8 - (Len(bytes) % 8)),
   off |-> 8, len |-> Len(bytes)]
Allocations(bytes) == {OwnBuffer(bytes)} \cup {PoolBuffer(bytes, h) : h \in PoolHeads}

\* the lengths of the data of an account: the whole layout, and accounts cut
\* short
DataLengths == {AccountLength, AccountLength - 2} \cup ShortLengths
Truncated(bytes) == {SubSeq(bytes, 1, n) : n \in DataLengths}

AccountData ==
  UNION {Allocations(b) :
           b \in UNION {Truncated(AccountBytes(f)) :
                          f \in ProtectionAccounts \cup DcaAccounts \cup PtAccounts}}

codecFrame == <<cfgKey, cfgAccount, keypair, accountPubkeys, updateInterval,
                isMonitoring, cache, clock, cycles, rewrites, restarts,
                lastCall, sa>>

\* getAccountState on the account data the chain returned
GetAccountState ==
  /\ wire.op = "data"
  /\ wire' = [op |-> "getAccountState", data |-> wire.data,
              out |-> DecodeAccountState(wire.data)]
  /\ UNCHANGED codecFrame

\* the decoding in checkAndExecuteDCA of the account data
DecodeDcaFields ==
  /\ wire.op = "data"
  /\ wire' = [op |-> "decodeDca", data |-> wire.data, out |-> DecodeDca(wire.data)]
  /\ UNCHANGED codecFrame

\* the decoding in checkAndExecutePriceTrade of the account data
DecodePriceTradeFields ==
  /\ wire.op = "data"
  /\ wire' = [op |-> "decodePriceTrade", data |-> wire.data,
              out |-> DecodePriceTrade(wire.data)]
  /\ UNCHANGED codecFrame

\* the decoders against every account data: the chain has returned the data
InitDecode ==
  /\ InitService /\ cfgKey /\ cfgAccount = "A" /\ sa = SaNew("none")
  /\ wire \in {[op |-> "data", data |-> d] : d \in AccountData}

NextDecode ==
  \/ GetAccountState
  \/ DecodeDcaFields
  \/ DecodePriceTradeFields

SpecDecode == InitDecode /\ [][NextDecode]_vars

\* ---- the instruction encoders
\* The instruction data the create*Instruction methods build
\* (unnamed/part_003, services/protection_service.ts, actions/price_trade.ts).
\* A JavaScript number is its integer part and whether it has a fraction;
\* BigInt(x) throws a RangeError on a number with a fraction.  The bytes of a
\* BigUint64Array are in the byte order of the platform, little-endian.
Numbers == [floor : {0, 1, WideValue}, frac : BOOLEAN]
Zero == [floor |-> 0, frac |-> FALSE]
Repeat8(b) == [i \in 1..8 |-> b]

INSTRUCTION_DISCRIMINATOR ==
  [INITIALIZE |-> Repeat8(97), SET_AUTOMATION |-> Repeat8(98),
   BORROW |-> Repeat8(99), REPAY |-> Repeat8(100), AUTO_REPAY |-> Repeat8(101)]
DCA_INSTRUCTION_DISCRIMINATOR ==
  [SET_DCA |-> Repeat8(102), MOCK_BUY |-> Repeat8(103)]
PRICE_INSTRUCTION_DISCRIMINATOR_Clash ==
  [SET_PRICE_TRADING |-> Repeat8(103), EXECUTE_PRICE_TRADE |-> Repeat8(105)]
PRICE_INSTRUCTION_DISCRIMINATOR ==
  [SET_PRICE_TRADING |-> Repeat8(104), EXECUTE_PRICE_TRADE |-> Repeat8(105)]

\* Buffer.from(new Uint8Array(new BigUint64Array([BigInt(x)]).buffer))
U32Bytes(x) == LEBytes(x.floor, 4)
U64Bytes(x) == LEBytes(x.floor, 8)

Built(data) == [ok |-> TRUE, data |-> data]
BigIntThrows == [ok |-> FALSE, data |-> <<>>]

createInitializeInstruction == Built(INSTRUCTION_DISCRIMINATOR.INITIALIZE)
createSetAutomationInstruction(triggerHealthFactor, targetHealthFactor) ==
  IF triggerHealthFactor.frac \/ targetHealthFactor.frac
  THEN BigIntThrows
  ELSE Built(INSTRUCTION_DISCRIMINATOR.SET_AUTOMATION
               \o U64Bytes(triggerHealthFactor) \o U64Bytes(targetHealthFactor))
createBorrowInstruction == Built(INSTRUCTION_DISCRIMINATOR.BORROW)
createRepayInstruction == Built(INSTRUCTION_DISCRIMINATOR.REPAY)
createAutoRepayInstruction == Built(INSTRUCTION_DISCRIMINATOR.AUTO_REPAY)
createSetDCAInstruction(interval, tokenAddress, tokenAmount) ==
  IF interval.frac \/ tokenAmount.frac
  THEN BigIntThrows
  ELSE Built(DCA_INSTRUCTION_DISCRIMINATOR.SET_DCA \o U64Bytes(interval)
               \o TokenBytes(tokenAddress) \o U64Bytes(tokenAmount))
createMockBuyInstruction(tokenAddress, tokenAmount) ==
  IF tokenAmount.frac
  THEN BigIntThrows
  ELSE Built(DCA_INSTRUCTION_DISCRIMINATOR.MOCK_BUY
               \o TokenBytes(tokenAddress) \o U64Bytes(tokenAmount))
createSetPriceTradingInstruction(targetPrice, tokenAddress, tokenAmount) ==
  IF targetPrice.frac \/ tokenAmount.frac
  THEN BigIntThrows
  ELSE Built(PRICE_INSTRUCTION_DISCRIMINATOR.SET_PRICE_TRADING
               \o U64Bytes(targetPrice) \o TokenBytes(tokenAddress)
               \o U64Bytes(tokenAmount))
createExecutePriceTradeInstruction(currentPrice) ==
  IF currentPrice.frac
  THEN BigIntThrows
  ELSE Built(PRICE_INSTRUCTION_DISCRIMINATOR.EXECUTE_PRICE_TRADE
               \o U64Bytes(currentPrice))

\* the calls of the encoders: the kind and its arguments (x and y are the
\* first and the second number of the kind, if it has them)
Kinds ==
  {"initialize", "setAutomation", "borrow", "repay", "autoRepay", "setDCA",
   "mockBuy", "setPriceTrading", "executePriceTrade"}
EncoderCall(k, x, t, y) == [kind |-> k, x |-> x, token |-> t, y |-> y]
EncoderCalls ==
  {EncoderCall(k, Zero, 1, Zero) : k \in {"initialize", "borrow", "repay", "autoRepay"}}
    \cup {EncoderCall("setAutomation", x, 1, y) : x \in Numbers, y \in Numbers}
    \cup {EncoderCall(k, x, t, y) :
            k \in {"setDCA", "setPriceTrading"}, x \in Numbers, t \in {1, 2},
            y \in Numbers}
    \cup {EncoderCall("mockBuy", Zero, t, y) : t \in {1, 2}, y \in Numbers}
    \cup {EncoderCall("executePriceTrade", x, 1, Zero) : x \in Numbers}

InstructionData(c) ==
  CASE c.kind = "initialize" -> createInitializeInstruction
    [] c.kind = "setAutomation" -> createSetAutomationInstruction(c.x, c.y)
    [] c.kind = "borrow" -> createBorrowInstruction
    [] c.kind = "repay" -> createRepayInstruction
    [] c.kind = "autoRepay" -> createAutoRepayInstruction
    [] c.kind = "setDCA" -> createSetDCAInstruction(c.x, c.token, c.y)
    [] c.kind = "mockBuy" -> createMockBuyInstruction(c.token, c.y)
    [] c.kind = "setPriceTrading" -> createSetPriceTradingInstruction(c.x, c.token, c.y)
    [] c.kind = "executePriceTrade" -> createExecutePriceTradeInstruction(c.x)

\* one of the create*Instruction methods builds the data of its instruction
CreateInstruction ==
  /\ wire.op = "call"
  /\ wire' = [op |-> "instruction", call |-> wire.call,
              out |-> InstructionData(wire.call)]
  /\ UNCHANGED codecFrame

\* the encoders against every call
InitEncode ==
  /\ InitService /\ cfgKey /\ cfgAccount = "A" /\ sa = SaNew("none")
  /\ wire \in {[op |-> "call", call |-> c] : c \in EncoderCalls}

NextEncode ==
  \/ CreateInstruction

SpecEncode == InitEncode /\ [][NextEncode]_vars

\* ---- the setup handlers
\* The handlers of the SET_AUTOMATION (unnamed/part_003), SET_DCA
\* (services/protection_service.ts) and SET_PRICE_TRADING
\* (actions/price_trade.ts) actions.  The content is what generateObject
\* extracted from the messages: each value is null, a number or a string.
\* The private key is the setting cfgKey stands for and the account the
\* setting cfgAccount; state.accountPubkey is not set.  A handler is followed
\* to its return; what sendAndConfirmTransaction answers is the choice of the
\* chain.
JsNull == [type |-> "object", floor |-> 0, frac |-> FALSE]
JsNumber(n, f) == [type |-> "number", floor |-> n, frac |-> f]
ContentNumbers == {JsNull} \cup {JsNumber(n, f) : n \in {-1, 0, 1}, f \in BOOLEAN}
\* a string that is the base58 of token 1, and one that is no public key
JsString(k) == [type |-> "string", key |-> k]
ContentStrings == {[type |-> "object", key |-> 0], JsString(0), JsString(1)}

\* a > b on numbers
Greater(a, b) == a.floor > b.floor \/ (a.floor = b.floor /\ a.frac /\ ~b.frac)
JsZero == JsNumber(0, FALSE)

isProtectionAutomationContent(content) ==
  /\ content.triggerHealthFactor.type = "number"
  /\ content.targetHealthFactor.type = "number"
  /\ Greater(content.targetHealthFactor, content.triggerHealthFactor)

isDCAContentNoAmount(content) ==
  /\ content.interval.type = "number"
  /\ content.tokenAddress.type = "string"
  /\ content.tokenAmount.type = "number"
  /\ Greater(content.interval, JsZero)

isDCAContent(content) ==
  /\ content.interval.type = "number"
  /\ content.tokenAddress.type = "string"
  /\ content.tokenAmount.type = "number"
  /\ Greater(content.interval, JsZero)
  /\ Greater(content.tokenAmount, JsZero)

isPriceTradeContent(content) ==
  /\ content.targetPrice.type = "number"
  /\ content.tokenAddress.type = "string"
  /\ content.tokenAmount.type = "number"
  /\ Greater(content.targetPrice, JsZero)
  /\ Greater(content.tokenAmount, JsZero)

Requests ==
  {[action |-> "SET_AUTOMATION",
    content |-> [triggerHealthFactor |-> t, targetHealthFactor |-> g]] :
     t \in ContentNumbers, g \in ContentNumbers}
    \cup {[action |-> "SET_DCA",
           content |-> [interval |-> i, tokenAddress |-> a, tokenAmount |-> n]] :
            i \in ContentNumbers, a \in ContentStrings, n \in ContentNumbers}
    \cup {[action |-> "SET_PRICE_TRADING",
           content |-> [targetPrice |-> i, tokenAddress |-> a, tokenAmount |-> n]] :
            i \in ContentNumbers, a \in ContentStrings, n \in ContentNumbers}

Handled(req, returned, sent) ==
  [op |-> "handled", action |-> req.action, content |-> req.content,
   returned |-> returned, sent |-> sent]

\* what the chain answers to the transactions of a handler, in their order
Confirmations == {<<TRUE, TRUE>>, <<TRUE, FALSE>>, <<FALSE, FALSE>>}

\* createProtectionAutomation: initialize(), then setAutomation(); a
\* rejection of either is thrown on
createProtectionAutomation(req, confirmed) ==
  LET init == createInitializeInstruction
      set == createSetAutomationInstruction(req.content.triggerHealthFactor,
                                            req.content.targetHealthFactor)
  IN IF ~confirmed[1] THEN Handled(req, FALSE, <<init.data>>)
     ELSE IF ~set.ok THEN Handled(req, FALSE, <<init.data>>)
     ELSE Handled(req, confirmed[2], <<init.data, set.data>>)

\* the handler of SET_AUTOMATION
SetAutomationHandler(confirmed) ==
  /\ wire.op = "request" /\ wire.req.action = "SET_AUTOMATION"
  /\ wire' = IF ~isProtectionAutomationContent(wire.req.content)
             THEN Handled(wire.req, FALSE, <<>>)
             ELSE IF ~cfgKey
             THEN Handled(wire.req, FALSE, <<>>)
             ELSE createProtectionAutomation(wire.req, confirmed)
  /\ UNCHANGED codecFrame

\* the steps the handlers of SET_DCA and SET_PRICE_TRADING share after the
\* predicate has accepted the content: the key, new PublicKey(accountPubkey),
\* new PublicKey(tokenAddress), the instruction and its transaction
SubmitSetup(req, instr, confirmed) ==
  IF ~cfgKey \/ cfgAccount = "bad" \/ req.content.tokenAddress.key = 0
  THEN Handled(req, FALSE, <<>>)
  ELSE IF ~instr.ok
  THEN Handled(req, FALSE, <<>>)
  ELSE Handled(req, confirmed[1], <<instr.data>>)

\* the handler of SET_DCA
SetDCAHandler(confirmed) ==
  LET c == wire.req.content IN
  /\ wire.op = "request" /\ wire.req.action = "SET_DCA"
  /\ wire' = IF cfgAccount = NoAccount
             THEN Handled(wire.req, FALSE, <<>>)
             ELSE IF ~isDCAContent(c)
             THEN Handled(wire.req, FALSE, <<>>)
             ELSE SubmitSetup(wire.req,
                    createSetDCAInstruction(c.interval, c.tokenAddress.key,
                                            c.tokenAmount),
                    confirmed)
  /\ UNCHANGED codecFrame

\* the handler of SET_PRICE_TRADING
SetPriceTradingHandler(confirmed) ==
  LET c == wire.req.content IN
  /\ wire.op = "request" /\ wire.req.action = "SET_PRICE_TRADING"
  /\ wire' = IF cfgAccount = NoAccount
             THEN Handled(wire.req, FALSE, <<>>)
             ELSE IF ~isPriceTradeContent(c)
             THEN Handled(wire.req, FALSE, <<>>)
             ELSE SubmitSetup(wire.req,
                    createSetPriceTradingInstruction(c.targetPrice,
                                                     c.tokenAddress.key,
                                                     c.tokenAmount),
                    confirmed)
  /\ UNCHANGED codecFrame

\* the handlers against every content
InitSetup ==
  /\ InitService /\ sa = SaNew("none")
  /\ wire \in {[op |-> "request", req |-> q] : q \in Requests}

NextSetup ==
  \/ \E confirmed \in Confirmations : SetAutomationHandler(confirmed)
  \/ \E confirmed \in Confirmations : SetDCAHandler(confirmed)
  \/ \E confirmed \in Confirmations : SetPriceTradingHandler(confirmed)

SpecSetup == InitSetup /\ [][NextSetup]_vars

\* the AUTO_REPAY requests: state.accountPubkey is set or not
RepayRequests ==
  {[action |-> "AUTO_REPAY", accountPubkey |-> a] : a \in {NoAccount, "A"}}

\* what the AUTO_REPAY handler leaves: the state it read first, what it
\* returned and the instructions it submitted
Repaid(req, read, returned, sent) ==
  [op |-> "handled", action |-> req.action, accountPubkey |-> req.accountPubkey,
   read |-> read, returned |-> returned, sent |-> sent]

\* the handler of AUTO_REPAY: the account from the state or the setting, the
\* key, new PublicKey(accountPubkey), getAccountState, the comparison with
\* the trigger, autoRepay() and the second getAccountState; everything
\* thrown is caught and answered with false
AutoRepayHandler(currentState, confirmed, newState) ==
  LET req == wire.req
      accountPubkey == IF req.accountPubkey # NoAccount THEN req.accountPubkey
                       ELSE cfgAccount
      instr == createAutoRepayInstruction
  IN
  /\ wire.op = "request" /\ req.action = "AUTO_REPAY"
  /\ wire' = IF accountPubkey = NoAccount
             THEN Repaid(req, NoData, FALSE, <<>>)
             ELSE IF ~cfgKey \/ ~ValidPubkey(accountPubkey)
             THEN Repaid(req, NoData, FALSE, <<>>)
             ELSE IF currentState \in FetchFailures
             THEN Repaid(req, currentState, FALSE, <<>>)
             ELSE IF currentState.healthFactor > currentState.triggerHealthFactor
             THEN Repaid(req, currentState, TRUE, <<>>)
             ELSE IF ~confirmed \/ newState \in FetchFailures
             THEN Repaid(req, currentState, FALSE, <<instr.data>>)
             ELSE Repaid(req, currentState, TRUE, <<instr.data>>)
  /\ UNCHANGED codecFrame

\* the AUTO_REPAY handler against every account state
InitManual ==
  /\ InitService /\ sa = SaNew("none")
  /\ wire \in {[op |-> "request", req |-> q] : q \in RepayRequests}

NextManual ==
  \E currentState \in FetchResult, confirmed \in BOOLEAN, newState \in FetchResult :
    AutoRepayHandler(currentState, confirmed, newState)

SpecManual == InitManual /\ [][NextManual]_vars

\* ================================================================== claims
Settling == {"done", "rejected"}
VisitedAddrs(rec) == [i \in 1..Len(rec.visited) |-> rec.visited[i].addr]
IsPrefix(s, t) == Len(s) <= Len(t) /\ \A i \in 1..Len(s) : s[i] = t[i]

\* C1: at no time are two check cycles of the controller in progress together
\* (checked under Spec)
C1_NoOverlappingCycles ==
  Cardinality({c \in Slots : InProgress(c)}) <= 1

\* C2: a forceCheck begins its own cycle only when no other cycle is in
\* progress, however long the cycle in flight takes (checked under Spec)
C2_ForceWaitsForCycleInFlight ==
  [][\A c \in Slots :
       (cycles[c].pc \in {"idle", "waiting"} /\ cycles'[c].pc \in Active
          /\ cycles'[c].origin = "force")
       => \A d \in Slots : d # c => ~InProgress(d)]_vars

\* C3: every forceCheck that has returned ran a check cycle of its own
\* (checked under SpecForce)
C3_ForceAlwaysRunsCycle ==
  \A c \in Slots :
    (cycles[c].origin = "force" /\ cycles[c].pc = "done") => cycles[c].ran

\* What forceCheck does guarantee: the call settles; it is answered without
\* a cycle only by the early returns of checkHealthFactors (no keypair, or an
\* empty registry when it is entered), a cycle in flight never makes it give
\* up, and it returns the list its own cycle collected
\* (holds under SpecForce)
ForceServedUnlessEarlyReturn ==
  /\ [](\A c \in Slots :
          (cycles[c].origin = "force" /\ cycles[c].pc = "done")
          => \/ cycles[c].ran
             \/ (~keypair \/ cycles[c].startList = <<>>) /\ cycles[c].results = <<>>)
  /\ [][\A c \in Slots :
          (cycles[c].origin = "force" /\ InProgress(c) /\ ~InProgress(c)')
          => /\ cycles[c].pc = "cache"
             /\ cycles'[c].ran
             /\ cycles'[c].pc = "done" => cycles'[c].results = cycles[c].results]_vars
  /\ \A c \in Slots :
       (cycles[c].origin = "force" /\ cycles[c].pc \notin Settling)
       ~> (cycles[c].pc \in Settling)

\* the condition the claims state for a submission
Warranted(st) ==
  st.automationEnabled /\ st.healthFactor <= st.triggerHealthFactor
    /\ st.triggerHealthFactor > 0

Last(s) == s[Len(s)]

\* C4: when the first getAccountState of an address settles, autoRepay is
\* called if and only if the decoded state has automationEnabled, healthFactor
\* <= triggerHealthFactor and triggerHealthFactor > 0; a cycle is suspended on
\* autoRepay only for such a state (checked under SpecEval)
C4_TriggerIffWarranted ==
  /\ [](\A c \in Slots : cycles[c].pc \in {"submit", "refetch"} => Warranted(cycles[c].data))
  /\ [][\A c \in Slots :
          (cycles[c].pc = "fetch"
             /\ Len(cycles'[c].visited) > Len(cycles[c].visited))
          => \/ /\ cycles'[c].pc = "submit"
                /\ cycles'[c].data.accountPubkey = cycles[c].addr
                /\ Warranted(cycles'[c].data)
             \/ /\ cycles'[c].pc # "submit"
                /\ Len(cycles'[c].results) = Len(cycles[c].results) + 1
                /\ Last(cycles'[c].results).accountPubkey = cycles[c].addr
                /\ ~Warranted(Last(cycles'[c].results))
             \/ /\ cycles'[c].pc # "submit"
                /\ cycles'[c].results = cycles[c].results
                /\ ~cycles'[c].visited[Len(cycles[c].visited) + 1].ok]_vars

\* C4 witness: a cycle suspended on autoRepay for a state at its trigger,
\* after a cycle that passed over an account with automation enabled and
\* healthFactor above a positive trigger, and cached it untouched
C4_Witness ==
  \E c \in Slots :
    /\ cycles[c].pc = "submit"
    /\ cycles[c].data.healthFactor = cycles[c].data.triggerHealthFactor
    /\ cache.present /\ Len(cache.value) = 1
    /\ cache.value[1].automationEnabled
    /\ cache.value[1].triggerHealthFactor > 0
    /\ cache.value[1].healthFactor > cache.value[1].triggerHealthFactor
    /\ cache.value[1].lastTriggered = Absent

\* C5: in no periodic protection check, multi-account or single-account, is
\* autoRepay called for an account whose triggerHealthFactor is 0
\* (checked under SpecSingle)
C5_ZeroTriggerNeverSubmits ==
  /\ \A c \in Slots : cycles[c].pc \in {"submit", "refetch"}
                        => cycles[c].data.triggerHealthFactor # 0
  /\ \A c \in Slots : sa.ticks[c].submitted
                        => sa.ticks[c].decoded.triggerHealthFactor # 0

\* the addresses of the cycle's list whose fetch failed in this cycle
FailedFetch(rec) ==
  {rec.visited[i].addr : i \in {j \in 1..Len(rec.visited) :
                                  ~rec.visited[j].ok /\ ValidPubkey(rec.visited[j].addr)}}

\* the addresses of the entries of a snapshot list, in order
EntryAddrs(list) == [i \in 1..Len(list) |-> list[i].accountPubkey]

\* the addresses a cycle decoded a state for, in order
DecodedAddrs(rec) ==
  LET ok == SelectSeq(rec.visited, LAMBDA v : v.ok)
  IN [i \in 1..Len(ok) |-> ok[i].addr]

\* C6: a failure on one address (invalid string, failed fetch, failed
\* autoRepay) never keeps the later addresses of the list from being
\* processed: a cycle during which the registry did not change has, at its
\* cache write, entered the loop body for every address of its list in
\* order and collected an entry for every address it decoded, and a cycle of
\* a living process ends only through its cache write
\* (checked under SpecRestart)
C6_PerAddressIsolation ==
  /\ [](\A c \in Slots :
          (InProgress(c) /\ ~cycles[c].mutated)
          => /\ IsPrefix(VisitedAddrs(cycles[c]), cycles[c].startList)
             /\ cycles[c].pc = "cache"
                  => /\ VisitedAddrs(cycles[c]) = cycles[c].startList
                     /\ EntryAddrs(cycles[c].results) = DecodedAddrs(cycles[c]))
  /\ [][\A c \in Slots :
          (InProgress(c) /\ ~InProgress(c)' /\ restarts' = restarts)
          => cycles[c].pc = "cache"]_vars

\* C6 witness: a cycle at its cache write whose first address failed to be
\* fetched and whose second address was decoded and has its entry
C6_Witness ==
  \E c \in Slots :
    /\ cycles[c].pc = "cache" /\ ~cycles[c].mutated
    /\ Len(cycles[c].visited) = 2
    /\ ~cycles[c].visited[1].ok /\ ValidPubkey(cycles[c].visited[1].addr)
    /\ cycles[c].visited[2].ok
    /\ Len(cycles[c].results) = 1

\* C7: the cache written by a cycle in which a fetch failed holds an entry
\* for every address of the cycle's list, and the entry of an address whose
\* fetch failed is the one the cache held before (checked under Spec)
C7_CacheKeepsFailedAddress ==
  [][\A c \in Slots :
       (cycles[c].pc = "cache" /\ cycles'[c].pc = "done"
          /\ ~cycles[c].mutated /\ FailedFetch(cycles[c]) # {})
       => \A a \in {b \in Range(cycles[c].startList) : ValidPubkey(b)} :
            \E i \in 1..Len(cache'.value) :
              /\ cache'.value[i].accountPubkey = a
              /\ a \in FailedFetch(cycles[c])
                   => cache.present /\ cache'.value[i] \in Range(cache.value)]_vars

\* C8: the addresses a cycle processes are those of the registry when the
\* cycle started, in that order, whatever add/remove calls run while it is
\* suspended (checked under Spec)
C8_ListFixedAtCycleStart ==
  \A c \in Slots :
    InProgress(c)
    => /\ IsPrefix(VisitedAddrs(cycles[c]), cycles[c].startList)
       /\ cycles[c].pc = "cache" => VisitedAddrs(cycles[c]) = cycles[c].startList

\* C9: every address that was added and not removed is in the registry of
\* the process started next (checked under SpecRestart)
C9_AddedSurvivesRestart ==
  [][restarts' # restarts
       => \A a \in Range(accountPubkeys) : a \in Range(accountPubkeys')]_vars

\* C10: an address that was removed (and is not the configured account) is
\* not in the registry of a process started later: a restart brings in no
\* address that the registry did not hold when the process ended
\* (checked under SpecRestart)
C10_RemovedStaysRemoved ==
  [][restarts' # restarts
       => \A a \in Range(accountPubkeys') :
            a = cfgAccount \/ a \in Range(accountPubkeys)]_vars

\* the number of occurrences of x in s
Count(s, x) == Cardinality({i \in 1..Len(s) : s[i] = x})

\* a step that is an addAccountToMonitor / removeAccountFromMonitor call
CallStep ==
  /\ restarts' = restarts
  /\ lastCall' # lastCall \/ accountPubkeys' # accountPubkeys

\* C11: addAccountToMonitor(a) returns true and appends a when a is not in
\* the registry; for an address already there it returns false and leaves
\* the registry as it is; after the call the registry holds a exactly once
\* (checked under SpecRegistry)
C11_AddIdempotent ==
  [][(CallStep /\ lastCall'.op = "add")
       => /\ IF Contains(accountPubkeys, lastCall'.arg)
             THEN ~lastCall'.returned /\ accountPubkeys' = accountPubkeys
             ELSE lastCall'.returned
                  /\ accountPubkeys' = Append(accountPubkeys, lastCall'.arg)
          /\ Count(accountPubkeys', lastCall'.arg) = 1]_vars

\* C11 witness: B, put into the registry by an add of this process, was added
\* again; the call returned false and the registry holds B once
C11_Witness ==
  /\ restarts = 0 /\ ~cache.present /\ cfgAccount = "A"
  /\ lastCall = [op |-> "add", arg |-> "B", returned |-> FALSE]
  /\ accountPubkeys = <<"A", "B">>

\* C12: removeAccountFromMonitor(a) returns true exactly when a is in the
\* registry, and the registry is then the old one without a, the other
\* addresses in their order; for an absent address it returns false and
\* leaves registry and cache alone, starting no cache write
\* (checked under SpecRegistry)
C12_RemoveExact ==
  [][(CallStep /\ lastCall'.op = "remove")
       => IF Contains(accountPubkeys, lastCall'.arg)
          THEN /\ lastCall'.returned
               /\ accountPubkeys' =
                    SelectSeq(accountPubkeys, LAMBDA x : x # lastCall'.arg)
               /\ ~Contains(accountPubkeys', lastCall'.arg)
          ELSE /\ ~lastCall'.returned
               /\ accountPubkeys' = accountPubkeys
               /\ cache' = cache /\ rewrites' = rewrites]_vars

\* C12 witness: A was removed from between two other addresses
C12_Witness ==
  /\ lastCall = [op |-> "remove", arg |-> "A", returned |-> TRUE]
  /\ accountPubkeys = <<"bad", "B">>

\* C13: the registry never holds an address twice (checked under
\* SpecRegistry)
C13_NoDuplicates ==
  \A a \in Addr : Count(accountPubkeys, a) <= 1

\* C13 witness: a process started with account A configured on a cache that
\* holds A twice, to which B was then added
C13_Witness ==
  /\ cfgAccount = "A" /\ cache.present
  /\ EntryAddrs(cache.value) = <<"A", "A">>
  /\ lastCall = [op |-> "add", arg |-> "B", returned |-> TRUE]
  /\ accountPubkeys = <<"A", "B">>

\* C14: once stop() has returned, no check cycle begins on this instance,
\* from a timer tick or from a forceCheck (checked under Spec)
C14_NoCycleAfterStop ==
  [][~updateInterval
       => \A c \in Slots : ~(~InProgress(c) /\ InProgress(c)')]_vars

\* C15: a controller without a usable signing key does not start: no timer
\* is armed and no check cycle is run, in the multi-account service and in
\* the single-account ones (checked under Spec)
C15_NoStartWithoutKey ==
  ~cfgKey => /\ ~updateInterval
             /\ \A c \in Slots : ~cycles[c].ran
             /\ ~sa.checkInterval

\* C16: when autoRepay succeeded for an address, the snapshot the cycle
\* collects for it has lastTriggered and lastChecked equal to the cycle's
\* timestamp, whatever the re-read of the state returns
\* (checked under SpecEval)
C16_TriggeredStampedOnSuccess ==
  [][\A c \in Slots :
       (cycles[c].pc = "refetch" /\ cycles'[c].pc # "refetch")
       => /\ Len(cycles'[c].results) = Len(cycles[c].results) + 1
          /\ cycles'[c].results[Len(cycles[c].results) + 1].lastTriggered
               = cycles[c].now
          /\ cycles'[c].results[Len(cycles[c].results) + 1].lastChecked
               = cycles[c].now]_vars

\* C17: when autoRepay failed for an address, the snapshot the cycle collects
\* for it has no lastTriggered and does not advance the lastChecked the cache
\* holds for the address (checked under SpecEval)
C17_FailedSubmitChangesNothing ==
  [][\A c \in Slots :
       (cycles[c].pc = "submit" /\ cycles'[c].pc \notin {"submit", "refetch"})
       => LET e == cycles'[c].results[Len(cycles[c].results) + 1] IN
          /\ e.lastTriggered = Absent
          /\ \A i \in 1..Len(cache.value) :
               cache.value[i].accountPubkey = e.accountPubkey
               => e.lastChecked = cache.value[i].lastChecked]_vars

\* C18: a failed check costs an address nothing at the next tick: no step
\* of a cycle changes the registry; a tick of a service that has its keypair
\* and a non-empty registry always begins a cycle, over the registry as it is
\* then, whatever earlier cycles met; that cycle, unless an add/remove call
\* interferes, reaches every address of the registry; and a fetched state
\* that satisfies the trigger condition is submitted, whatever happened to
\* the address before (checked under SpecEval)
C18_RetriedAtNextTick ==
  /\ [][(cycles' # cycles /\ lastCall' = lastCall /\ restarts' = restarts)
          => accountPubkeys' = accountPubkeys]_vars
  /\ [][\A c \in Slots :
          (cycles[c].pc = "idle" /\ cycles'[c].pc # "idle"
             /\ cycles'[c].origin = "tick")
          => /\ InProgress(c)'
             /\ cycles'[c].startList = accountPubkeys]_vars
  /\ [](\A c \in Slots :
          (cycles[c].pc = "cache" /\ ~cycles[c].mutated /\ cycles[c].origin = "tick")
          => VisitedAddrs(cycles[c]) = cycles[c].startList)
  /\ [][\A c \in Slots :
          (cycles[c].pc = "fetch" /\ cycles'[c].pc # "submit"
             /\ Len(cycles'[c].results) > Len(cycles[c].results))
          => ~Warranted(cycles'[c].results[Len(cycles[c].results) + 1])]_vars

\* C18 witness: the cache holds for A a snapshot in trigger condition that
\* carries no lastTriggered (the submission or the re-read of an earlier
\* cycle failed), A is still in the registry, and the cycle of a later tick
\* is submitting autoRepay for A again
C18_Witness ==
  /\ accountPubkeys = <<"A">> /\ cache.present /\ Len(cache.value) = 1
  /\ Warranted(cache.value[1]) /\ cache.value[1].lastTriggered = Absent
  /\ \E c \in Slots :
       /\ cycles[c].origin = "tick" /\ cycles[c].pc = "submit"
       /\ cycles[c].data.accountPubkey = "A"

\* C19: a DCA check calls mockBuy exactly when the state it decoded is
\* enabled, has intervalSeconds > 0 and the interval has passed since the
\* last successful DCA trigger, a controller whose account was never
\* triggered counting as due; a fetch that fails decodes nothing and buys
\* nothing; and the interval of a day is due 90000000 ms after the last
\* trigger (checked under SpecDca)
C19_BuyIffDue ==
  /\ DcaDue([DcaOff EXCEPT !.dcaEnabled = TRUE, !.dcaInterval = 86400],
            10000000, 100000000)
  /\ [][\A c \in Slots :
          (sa.ticks[c].pc = "dcaFetch" /\ sa'.ticks[c].pc # "dcaFetch"
             /\ restarts' = restarts)
          => LET d == sa'.ticks[c].dca
             IN (sa'.ticks[c].pc = "dcaBuy")
                <=> /\ d.dcaEnabled
                    /\ d.dcaInterval > 0
                    /\ \/ sa.lastBuy.at = Absent
                       \/ DateNow(clock) - sa.lastBuy.at
                            >= d.dcaInterval * MsPerSecond]_vars

C21_NoRetriggerAtSameNow ==
  [][\A c \in Slots :
       (sa.ticks[c].pc = "dcaFetch" /\ sa'.ticks[c].pc # "dcaFetch"
          /\ restarts' = restarts
          /\ sa.lastBuy.at = DateNow(clock) /\ sa.lastBuy.proc = restarts)
       => sa'.ticks[c].pc # "dcaBuy"]_vars

\* C21 witness: a mockBuy of this process succeeded at now and a tick that
\* decoded an enabled state with an interval of 1 s at the same now, which
\* is due on a service that has not bought, has ended without buying
C21_Witness ==
  /\ sa.lastBuy.at = DateNow(clock) /\ sa.lastBuy.proc = restarts
  /\ \E c \in Slots :
       /\ sa.ticks[c].pc = "done" /\ ~sa.ticks[c].bought
       /\ sa.ticks[c].dca.dcaEnabled /\ sa.ticks[c].dca.dcaInterval = 1
       /\ sa.ticks[c].now = sa.lastBuy.at

C23_TradeIffPriceAtMostTarget ==
  [][\A c \in Slots :
       (sa.ticks[c].pc = "ptFetch" /\ sa'.ticks[c].pc # "ptFetch")
       => LET t == sa'.ticks[c]
          IN (t.pc = "ptTrade")
             <=> /\ t.pt.priceTradingEnabled
                 /\ t.pt.targetPrice > 0
                 /\ t.price # NoPrice
                 /\ PriceAtMost(t.price, t.pt.targetPrice)]_vars

\* the field of an account data that lies in bytes [start, end)
FieldAt(data, start, end) == LEValue(SubSeq(BufBytes(data), start + 1, end))

\* C24: for account data of at least 33 bytes getAccountState returns the
\* little-endian u64 of bytes [8,16) as healthFactor, of [16,24) as
\* triggerHealthFactor, of [24,32) as targetHealthFactor, and byte 32 # 0 as
\* automationEnabled (checked under SpecDecode)
C24_ProtectionFieldsAtOffsets ==
  (wire.op = "getAccountState" /\ wire.data.len >= 33)
  => wire.out = [healthFactor |-> FieldAt(wire.data, 8, 16),
                 triggerHealthFactor |-> FieldAt(wire.data, 16, 24),
                 targetHealthFactor |-> FieldAt(wire.data, 24, 32),
                 automationEnabled |-> (BufBytes(wire.data)[33] # 0)]

\* C25: for account data of the whole layout the DCA check decodes
\* intervalSeconds from bytes [40,48), the token address from [48,80), the
\* token amount from [80,88) and enabled from byte 88, and the price-trade
\* check decodes targetPrice from [89,97), the token address from [97,129),
\* the token amount from [129,137) and enabled from byte 137
\* (checked under SpecDecode)
C25_DcaAndPriceFieldsAtOffsets ==
  /\ (wire.op = "decodeDca" /\ wire.data.len >= AccountLength)
     => wire.out = [dcaInterval |-> FieldAt(wire.data, 40, 48),
                    dcaEnabled |-> (BufBytes(wire.data)[89] # 0),
                    tokenAddress |-> SubSeq(BufBytes(wire.data), 49, 80),
                    tokenAmount |-> FieldAt(wire.data, 80, 88)]
  /\ (wire.op = "decodePriceTrade" /\ wire.data.len >= AccountLength)
     => wire.out = [targetPrice |-> FieldAt(wire.data, 89, 97),
                    priceTradingEnabled |-> (BufBytes(wire.data)[138] # 0),
                    tokenAddress |-> SubSeq(BufBytes(wire.data), 98, 129),
                    tokenAmount |-> FieldAt(wire.data, 129, 137)]

\* C26: decoding fails as a whole on account data shorter than the record
\* needs: 33 bytes for the protection state, 89 for the DCA fields, 138 for
\* the price-trade fields; no record is returned
\* (checked under SpecDecode)
C26_ShortDataFails ==
  /\ (wire.op = "getAccountState" /\ wire.data.len < 33) => wire.out = RangeError
  /\ (wire.op = "decodeDca" /\ wire.data.len < 89) => wire.out = RangeError
  /\ (wire.op = "decodePriceTrade" /\ wire.data.len < AccountLength)
     => wire.out = RangeError

\* C27: the data of every instruction is the 8-byte discriminator of its
\* kind followed by its fields in the order of declaration, each integer as 8
\* bytes little-endian and each public key as its 32 bytes, nothing else:
\* 8 bytes for initialize, borrow, repay and autoRepay, 24 for setAutomation,
\* 56 for setDCA and setPriceTrading, 48 for mockBuy, 16 for
\* executePriceTrade (checked under SpecEncode)
PayloadSize(k) ==
  CASE k \in {"initialize", "borrow", "repay", "autoRepay"} -> 8
    [] k = "setAutomation" -> 24
    [] k \in {"setDCA", "setPriceTrading"} -> 56
    [] k = "mockBuy" -> 48
    [] k = "executePriceTrade" -> 16
Discriminator(k) ==
  CASE k = "initialize" -> INSTRUCTION_DISCRIMINATOR.INITIALIZE
    [] k = "setAutomation" -> INSTRUCTION_DISCRIMINATOR.SET_AUTOMATION
    [] k = "borrow" -> INSTRUCTION_DISCRIMINATOR.BORROW
    [] k = "repay" -> INSTRUCTION_DISCRIMINATOR.REPAY
    [] k = "autoRepay" -> INSTRUCTION_DISCRIMINATOR.AUTO_REPAY
    [] k = "setDCA" -> DCA_INSTRUCTION_DISCRIMINATOR.SET_DCA
    [] k = "mockBuy" -> DCA_INSTRUCTION_DISCRIMINATOR.MOCK_BUY
    [] k = "setPriceTrading" -> PRICE_INSTRUCTION_DISCRIMINATOR.SET_PRICE_TRADING
    [] k = "executePriceTrade" -> PRICE_INSTRUCTION_DISCRIMINATOR.EXECUTE_PRICE_TRADE
C27_PayloadLayout ==
  (wire.op = "instruction" /\ wire.out.ok)
  => LET d == wire.out.data
         c == wire.call
         U64At(from) == LEValue(SubSeq(d, from, from + 7))
         KeyAt(from) == SubSeq(d, from, from + 31)
     IN /\ Len(d) = PayloadSize(c.kind)
        /\ SubSeq(d, 1, 8) = Discriminator(c.kind)
        /\ c.kind = "setAutomation"
           => U64At(9) = c.x.floor /\ U64At(17) = c.y.floor
        /\ c.kind \in {"setDCA", "setPriceTrading"}
           => /\ U64At(9) = c.x.floor
              /\ KeyAt(17) = TokenBytes(c.token)
              /\ U64At(49) = c.y.floor
        /\ c.kind = "mockBuy"
           => KeyAt(9) = TokenBytes(c.token) /\ U64At(41) = c.y.floor
        /\ c.kind = "executePriceTrade" => U64At(9) = c.x.floor

\* a setDCA instruction with a two-byte interval and another token was built
C27_Witness ==
  /\ wire.op = "instruction" /\ wire.out.ok
  /\ wire.call.kind = "setDCA"
  /\ wire.call.x.floor = WideValue /\ wire.call.token = 2
  /\ wire.call.y.floor = 1

\* C28: the nine instruction kinds have pairwise distinct 8-byte
\* discriminators: the first 8 bytes of the data of an instruction are those
\* of no other kind (checked under SpecEncode)
C28_DistinctDiscriminators ==
  /\ \A j \in Kinds, k \in Kinds :
       /\ Len(Discriminator(k)) = 8
       /\ j # k => Discriminator(j) # Discriminator(k)
  /\ (wire.op = "instruction" /\ wire.out.ok)
     => \A k \in Kinds :
          SubSeq(wire.out.data, 1, 8) = Discriminator(k) => k = wire.call.kind

\* a mockBuy instruction was built
C28_Witness ==
  wire.op = "instruction" /\ wire.out.ok /\ wire.call.kind = "mockBuy"

\* C29: the cache key has a single writer: the cache changes only by the
\* write of the whole list of a check cycle that has processed its
\* addresses, and addAccountToMonitor and removeAccountFromMonitor hand
\* nothing to setCache (checked under SpecRegistry)
C29_SingleWriter ==
  [][/\ \A r \in RSlots : rewrites[r].pc # "write" => rewrites'[r].pc # "write"
     /\ cache' # cache
        => \E c \in Slots : /\ cycles[c].pc = "cache"
                            /\ cycles'[c].pc = "done"
                            /\ cache' = Cached(cycles[c].results)]_vars

\* C30: the handler of SET_AUTOMATION submits a setAutomation instruction
\* only with numbers targetHealthFactor > triggerHealthFactor, the handlers
\* of SET_DCA and SET_PRICE_TRADING submit only with an interval (a target
\* price) above 0 and a token amount above 0; with other parameters the
\* handler returns false and has submitted no transaction
\* (checked under SpecSetup)
Above(a, b) ==
  /\ a.type = "number" /\ b.type = "number"
  /\ a.floor > b.floor \/ (a.floor = b.floor /\ a.frac /\ ~b.frac)
SetupAccepts(action, c) ==
  CASE action = "SET_AUTOMATION" -> Above(c.targetHealthFactor, c.triggerHealthFactor)
    [] action = "SET_DCA" -> Above(c.interval, JsNumber(0, FALSE))
                               /\ Above(c.tokenAmount, JsNumber(0, FALSE))
    [] action = "SET_PRICE_TRADING" -> Above(c.targetPrice, JsNumber(0, FALSE))
                                         /\ Above(c.tokenAmount, JsNumber(0, FALSE))
C30_SetupValidation ==
  wire.op = "handled"
  => /\ wire.sent # <<>> => SetupAccepts(wire.action, wire.content)
     /\ ~SetupAccepts(wire.action, wire.content)
        => wire.returned = FALSE /\ wire.sent = <<>>
     /\ wire.returned => wire.sent # <<>>

\* the SET_DCA handler has submitted a setDCA transaction, it was confirmed
\* and the handler returned true
C30_Witness ==
  /\ wire.op = "handled" /\ wire.action = "SET_DCA"
  /\ wire.returned /\ Len(wire.sent) = 1
  /\ wire.content.interval = JsNumber(1, FALSE)

\* C31: start() loads the cache into the registry before the first check
\* and before a timer tick can fire: when a process has started, the registry
\* holds the configured account and every address of the cache, the only
\* invocation is the initial check, and a check that ran was entered on that
\* whole registry (checked under SpecRegistry)
C31_CacheLoadedBeforeFirstCheck ==
  [][restarts' = restarts + 1
       => /\ cfgAccount # NoAccount => Contains(accountPubkeys', cfgAccount)
          /\ cache.present
             => \A i \in 1..Len(cache.value) :
                  Contains(accountPubkeys', cache.value[i].accountPubkey)
          /\ \A c \in Slots : c # 1 => cycles'[c].pc = "idle"
          /\ (keypair' /\ accountPubkeys' # <<>>)
             => /\ cycles'[1].origin = "initial" /\ cycles'[1].ran
                /\ cycles'[1].startList = accountPubkeys'
                /\ isMonitoring']_vars

\* C31 witness: a process was started with account A configured on a cache
\* that holds B; its initial check is on A and B
C31_Witness ==
  /\ restarts = 1 /\ cfgAccount = "A" /\ cache.present
  /\ EntryAddrs(cache.value) = <<"B">>
  /\ cycles[1].origin = "initial" /\ cycles[1].pc = "fetch"
  /\ cycles[1].startList = <<"A", "B">>

\* C32: a check cycle in progress when stop() is called is not aborted:
\* stop() leaves the invocation where it is; the cycle goes on through the
\* addresses of its list in order, submits the autoRepay its fetches warrant,
\* and ends only through its cache write, which puts its results into the
\* cache after stop() has returned (checked under SpecStop)
C32_StopDoesNotAbort ==
  /\ [](\A c \in Slots :
          (InProgress(c) /\ cycles[c].stopped)
          => /\ IsPrefix(VisitedAddrs(cycles[c]), cycles[c].startList)
             /\ cycles[c].pc = "cache"
                  => /\ VisitedAddrs(cycles[c]) = cycles[c].startList
                     /\ EntryAddrs(cycles[c].results) = DecodedAddrs(cycles[c]))
  /\ [][\A c \in Slots :
          /\ (InProgress(c) /\ ~cycles[c].stopped /\ cycles'[c].stopped)
             => cycles'[c] = [cycles[c] EXCEPT !.stopped = TRUE]
          /\ (InProgress(c) /\ cycles[c].stopped /\ ~InProgress(c)')
             => /\ cycles[c].pc = "cache"
                /\ cycles'[c].pc \in Settling
                /\ cycles'[c].pc = "done" => cache' = Cached(cycles[c].results)
          /\ (cycles[c].stopped /\ cycles[c].pc = "fetch"
                /\ Len(cycles'[c].results) = Len(cycles[c].results) + 1)
             => LET d == cycles'[c].results[Len(cycles'[c].results)]
                IN ~(/\ d.automationEnabled
                     /\ d.healthFactor <= d.triggerHealthFactor
                     /\ d.triggerHealthFactor > 0)]_vars

\* C32 witness: the initial check on A and B was in flight when stop() ran;
\* it has ended with its cache write, and the entry of B in the cache is
\* that of an autoRepay of this cycle
C32_Witness ==
  /\ ~updateInterval
  /\ cycles[1].pc = "done" /\ cycles[1].stopped
  /\ cache.present /\ EntryAddrs(cache.value) = <<"A", "B">>
  /\ cache.value[2].lastTriggered # Absent

\* C33: isCurrentlyMonitoring() is true exactly while a check cycle of the
\* controller is in progress, from the start of the cycle to the end of its
\* cache write, a stop() during the cycle included (checked under SpecStop)
C33_MonitoringIffCycleInProgress ==
  isMonitoring <=> AnyInProgress

\* C34: the in-progress flag is released when a check cycle ends, with its
\* cache write done or failed: isMonitoring is false after the step that
\* ends a cycle (checked under SpecStop)
C34_FlagReleased ==
  [][\A c \in Slots :
       (InProgress(c) /\ ~InProgress(c)' /\ restarts' = restarts)
       => ~isMonitoring']_vars

\* C35: the cache is never overwritten with older snapshots: it changes only
\* by the write of a check cycle, and a cycle of the timer does not write
\* after a cycle that began later has written (checked under Spec)
C35_NoStaleOverwrite ==
  [][cache' # cache
       => \E c \in Slots :
            /\ cycles[c].pc = "cache" /\ cycles'[c].pc = "done"
            /\ cache' = Cached(cycles[c].results)
            /\ cycles[c].origin # "force"
               => \A d \in Slots :
                    d > c => ~(cycles[d].pc = "done" /\ cycles[d].ran)]_vars

\* C36: the lastTriggered of an address is durable: a snapshot of an address
\* written to the cache carries a lastTriggered that is not below the one of
\* the snapshot of that address it replaces (checked under SpecEval)
C36_LastTriggeredDurable ==
  [][\A i \in 1..Len(cache.value), j \in 1..Len(cache'.value) :
       cache.value[i].accountPubkey = cache'.value[j].accountPubkey
       => cache'.value[j].lastTriggered >= cache.value[i].lastTriggered]_vars

\* C37: getAccountStatus(a) returns null for an address that is no longer
\* monitored: when the last add/remove call was a removeAccountFromMonitor(a)
\* that returned true and a forceCheck that began after it completes,
\* getAccountStatus(a) is null, also when a was the only address
\* (checked under Spec)
C37_RemovedAddressAbsent ==
  [][\A c \in Slots, a \in Addr :
       (/\ lastCall = [op |-> "remove", arg |-> a, returned |-> TRUE]
        /\ lastCall' = lastCall
        /\ cycles[c].pc # "done" /\ ~cycles[c].mutated
        /\ cycles'[c].pc = "done" /\ cycles'[c].origin = "force")
       => getAccountStatus(a)' = NoData]_vars

\* C38: lastDCATime changes only when a mockBuy has succeeded, and becomes
\* the now its check read before the call; a check that does not trigger, a
\* failed fetch and a failed mockBuy leave it as it was, so that after a
\* failed mockBuy the purchase is still due (checked under SpecDcaEval)
C38_DcaTimerFrame ==
  [][/\ sa'.lastDCATime # sa.lastDCATime
        => \E c \in Slots : /\ sa.ticks[c].pc = "dcaBuy"
                            /\ ~sa.ticks[c].bought /\ sa'.ticks[c].bought
                            /\ sa'.lastDCATime = sa.ticks[c].now
     /\ \A c \in Slots :
          /\ (sa.ticks[c].pc = "dcaBuy" /\ sa'.ticks[c].pc # "dcaBuy"
                /\ sa'.ticks[c].bought)
             => sa'.lastDCATime = sa.ticks[c].now
          /\ (sa.ticks[c].pc = "dcaBuy" /\ sa'.ticks[c].pc # "dcaBuy"
                /\ ~sa'.ticks[c].bought)
             => /\ sa'.lastDCATime = sa.lastDCATime
                /\ sa.ticks[c].now - sa'.lastDCATime
                     >= sa.ticks[c].dca.dcaInterval * MsPerSecond
          /\ (sa.ticks[c].pc = "dcaFetch" /\ sa'.ticks[c].pc # "dcaFetch")
             => sa'.lastDCATime = sa.lastDCATime]_vars

\* C38 witness: the service has never bought; the mockBuy of one tick, on an
\* enabled state with an interval of 1 s, has failed, and a later tick is
\* calling mockBuy again
C38_Witness ==
  /\ sa.lastDCATime = 0
  /\ \E c \in Slots, d \in Slots :
       /\ c < d
       /\ sa.ticks[c].pc = "done" /\ ~sa.ticks[c].bought
       /\ sa.ticks[c].dca.dcaEnabled /\ sa.ticks[c].dca.dcaInterval = 1
       /\ sa.ticks[d].pc = "dcaBuy"

\* C39: when the price service has no price for the decoded token, the
\* price-trade check of an enabled trade submits nothing, its tick ends as
\* any other with the timer still armed, and the check runs again at the
\* next tick (checked under SpecPrice)
C39_NoPriceNoTrade ==
  /\ [](\A c \in Slots : sa.ticks[c].pc = "ptTrade" => sa.ticks[c].price # NoPrice)
  /\ [][\A c \in Slots :
          (/\ sa.ticks[c].pc = "ptFetch" /\ sa'.ticks[c].pc # "ptFetch"
           /\ sa'.ticks[c].pt.priceTradingEnabled
           /\ sa'.ticks[c].pt.targetPrice > 0
           /\ sa'.ticks[c].price = NoPrice)
          => /\ sa'.ticks[c].pc = "done"
             /\ sa'.checkInterval /\ sa'.automation
             /\ \A d \in Slots : d # c => sa'.ticks[d] = sa.ticks[d]]_vars

\* C39 witness: the check of one tick found an enabled trade and no price
\* and has ended; the check of the next tick is awaiting the account
C39_Witness ==
  \E c \in Slots, d \in Slots :
    /\ c < d
    /\ sa.ticks[c].pc = "done"
    /\ sa.ticks[c].pt.priceTradingEnabled /\ sa.ticks[c].pt.targetPrice > 0
    /\ sa.ticks[c].price = NoPrice
    /\ sa.ticks[d].pc = "ptFetch"

\* C40: the manual AUTO_REPAY action submits the autoRepay instruction only
\* under the trigger condition of the periodic check: automation enabled,
\* healthFactor <= triggerHealthFactor and triggerHealthFactor > 0; in every
\* other state it read it submits nothing (violated under SpecManual)
C40_ManualRepaySameTrigger ==
  (wire.op = "handled" /\ wire.action = "AUTO_REPAY" /\ wire.sent # <<>>)
    => ShouldTrigger(wire.read)

====
